---- MODULE Spec2Model ----
(***************************************************************************)
(* A model of the multi-mode lexer of crates/typst-syntax/src/lexer.rs.    *)
(*                                                                         *)
(* The input is a sequence of UTF-8 byte slots: the first slot of a        *)
(* character holds the character, every further byte of a multi-byte       *)
(* character holds Cont.  Offsets are byte offsets, as in the source.      *)
(* ASCII characters are one-character strings; the backtick and the        *)
(* non-ASCII characters are written by name.                               *)
(***************************************************************************)
EXTENDS Integers, Sequences, FiniteSets, TLC

VARIABLES
    text,       \* the borrowed input (never changes)
    cursor,     \* scanner.cursor()
    mode,       \* Lexer.mode
    newline,    \* Lexer.newline
    raw,        \* Lexer.raw, in Vec order (pop takes the last element)
    error,      \* Lexer.error: <<>> is None, <<m>> is Some(m)
    op,         \* the most recent facade operation
    kind,       \* the kind returned by the most recent next ("NoCall": none
                \* since construction or since the last jump / set_mode)
    start,      \* the cursor before the most recent next
    nmode,      \* the mode in which the most recent next ran
    pending,    \* whether error was Some before the most recent next
    taken,      \* what take_error returned, when it is the most recent operation
    ends,       \* how many next calls in a row returned End, up to MaxEnds
    replayed    \* the tokens returned since the opening RawDelim of the raw
                \* block being replayed: <<[kind, from, to]>>

vars == <<text, cursor, mode, newline, raw, error,
          op, kind, start, nmode, pending, taken, ends, replayed>>

(***************************************************************************)
(* Characters                                                              *)
(***************************************************************************)
BT == "BT"            \* U+0060 backtick
VT == "U+000B"        \* vertical tab
FF == "U+000C"        \* form feed
NEL == "U+0085"       \* next line
NBSP == "U+00A0"      \* no-break space
SUP2 == "U+00B2"      \* superscript two (numeric, not a digit)
EACUTE == "U+00E9"    \* e with acute
ACUTE == "U+0301"     \* combining acute accent
LS == "U+2028"        \* line separator
PS == "U+2029"        \* paragraph separator
MINUS == "U+2212"     \* minus sign
SQRT == "U+221A"      \* square root
CBRT == "U+221B"      \* cube root
FTRT == "U+221C"      \* fourth root
HAN == "U+4E2D"       \* a Han ideograph
Cont == "CONT"        \* a continuation byte of the character before it
NoChar == "EOF"       \* Option<char>::None

AsciiDigit == {"0", "1", "2", "3", "4", "5", "6", "7", "8", "9"}
AsciiLower == {"a", "b", "c", "d", "e", "f", "g", "h", "i", "j", "k", "l", "m",
               "n", "o", "p", "q", "r", "s", "t", "u", "v", "w", "x", "y", "z"}
AsciiUpper == {"A", "B", "C", "D", "E", "F", "G", "H", "I", "J", "K", "L", "M",
               "N", "O", "P", "Q", "R", "S", "T", "U", "V", "W", "X", "Y", "Z"}
AsciiAlphanumeric == AsciiDigit \cup AsciiLower \cup AsciiUpper
AsciiPunct == {"!", "\"", "#", "$", "%", "&", "'", "(", ")", "*", "+", ",", "-",
               ".", "/", ":", ";", "<", "=", ">", "?", "@", "[", "\\", "]", "^",
               "_", BT, "{", "|", "}", "~"}
AsciiSpace == {" ", "\t", "\n", VT, FF, "\r"}
Ascii == AsciiAlphanumeric \cup AsciiPunct \cup AsciiSpace
TwoByte == {NEL, NBSP, SUP2, EACUTE, ACUTE}
ThreeByte == {LS, PS, MINUS, SQRT, CBRT, FTRT, HAN}
Chars == Ascii \cup TwoByte \cup ThreeByte

\* char::len_utf8
len_utf8(c) == IF c \in TwoByte THEN 2 ELSE IF c \in ThreeByte THEN 3 ELSE 1

\* char::is_whitespace (the White_Space property)
Whitespace == AsciiSpace \cup {NEL, NBSP, LS, PS}
\* char::is_alphanumeric, char::is_numeric
Alphanumeric == AsciiAlphanumeric \cup {SUP2, EACUTE, HAN}
Numeric == AsciiDigit \cup {SUP2}
\* unicode_ident::is_xid_start, is_xid_continue
XidStart == AsciiLower \cup AsciiUpper \cup {EACUTE, HAN}
XidContinue == XidStart \cup AsciiDigit \cup {"_", ACUTE}
\* characters that extend the grapheme cluster of the character before them
GraphemeExtend == {ACUTE}
\* unicode_script: Han, Hiragana, Katakana or Hangul
CjkScript == {HAN}

Newlines == {"\n", VT, FF, "\r", NEL, LS, PS}
is_newline(c) == c \in Newlines

is_id_start(c) == c \in XidStart \/ c = "_"
is_id_continue(c) == c \in XidContinue \/ c = "_" \/ c = "-"
is_math_id_start(c) == c \in XidStart
is_math_id_continue(c) == c \in XidContinue /\ c # "_"
IdStart == {c \in Chars : is_id_start(c)}
IdContinue == {c \in Chars : is_id_continue(c)}
MathIdContinue == {c \in Chars : is_math_id_continue(c)}

is_space(c, m) ==
    IF m = "Markup" THEN c \in {" ", "\t"} \/ is_newline(c)
    ELSE c \in Whitespace
SpaceSet(m) == {c \in Chars : is_space(c, m)}

(***************************************************************************)
(* Option and Vec                                                          *)
(***************************************************************************)
None == <<>>
Some(x) == <<x>>

\* the reversal of the pending stack left out
Reverse_forgotten(s) == s

RECURSIVE Reverse(_)
Reverse(s) == IF s = <<>> THEN <<>> ELSE Append(Reverse(Tail(s)), Head(s))

Min(a, b) == IF a < b THEN a ELSE b

(***************************************************************************)
(* The scanner (unscanny::Scanner) over text                               *)
(***************************************************************************)
TextLen == Len(text)
done(p) == p >= TextLen
peek(p) == IF p < TextLen THEN text[p + 1] ELSE NoChar
eat(p) == IF p < TextLen THEN p + len_utf8(text[p + 1]) ELSE p
at(S, p) == peek(p) \in S
atStr(s, p) == p + Len(s) <= TextLen /\ SubSeq(text, p + 1, p + Len(s)) = s
eat_if(S, p) == IF at(S, p) THEN eat(p) ELSE p
eat_ifStr(s, p) == IF atStr(s, p) THEN p + Len(s) ELSE p
get(a, b) == SubSeq(text, a + 1, b)

RECURSIVE eat_while(_, _)
eat_while(S, p) == IF at(S, p) THEN eat_while(S, eat(p)) ELSE p

RECURSIVE eat_until(_, _)
eat_until(S, p) == IF done(p) \/ at(S, p) THEN p ELSE eat_until(S, eat(p))

\* Scanner::snap: into the string, then back to a character boundary
RECURSIVE snapBack(_)
snapBack(i) == IF i < TextLen /\ text[i + 1] = Cont THEN snapBack(i - 1) ELSE i
snap(i) == snapBack(Min(i, TextLen))

\* the offset of the character that ends at p (p > 0)
uneat(p) == snapBack(p - 1)
\* Scanner::scout(-1), scout(-2), scout(1)
scoutBack1(p) == IF p = 0 THEN NoChar ELSE text[uneat(p) + 1]
scoutBack2(p) == IF p = 0 THEN NoChar ELSE scoutBack1(uneat(p))
scout1(p) == peek(eat(p))

\* ScannerExt::eat_newline: CR LF is one newline
eat_newline(p) ==
    IF at(Newlines, p)
    THEN IF peek(p) = "\r" THEN eat_if({"\n"}, eat(p)) ELSE eat(p)
    ELSE p

\* the characters of a slice (its byte slots without the continuation bytes)
chars(s) == SelectSeq(s, LAMBDA x : x # Cont)

RECURSIVE concat(_)
concat(s) == IF s = <<>> THEN "" ELSE Head(s) \o concat(Tail(s))

\* Tok without the reset of the error slot at the entry of next
Tok_keeps_error(k, c) == [kind |-> k, cur |-> c, err |-> error, nl |-> FALSE, raw |-> raw]

\* a token: its kind, the cursor after it, the error it leaves
Tok(k, c) == [kind |-> k, cur |-> c, err |-> None, nl |-> FALSE, raw |-> raw]
\* Lexer::error without the write to the error slot
Err_unrecorded(m, c) == [kind |-> "Error", cur |-> c, err |-> None, nl |-> FALSE, raw |-> raw]

\* Lexer::error
Err(m, c) == [kind |-> "Error", cur |-> c, err |-> Some(m), nl |-> FALSE, raw |-> raw]

(***************************************************************************)
(* Rules shared by Markup, Math and Code                                   *)
(***************************************************************************)
\* count_newlines that counts the LF after a CR again
RECURSIVE count_newlines_crlf_twice(_)
count_newlines_crlf_twice(s) ==
    IF s = <<>> THEN 0
    ELSE (IF is_newline(Head(s)) THEN 1 ELSE 0) + count_newlines_crlf_twice(Tail(s))

RECURSIVE count_newlines(_)
count_newlines(s) ==
    IF s = <<>> THEN 0
    ELSE IF is_newline(Head(s))
    THEN 1 + count_newlines(IF Head(s) = "\r" /\ Len(s) >= 2 /\ s[2] = "\n"
                            THEN Tail(Tail(s)) ELSE Tail(s))
    ELSE count_newlines(Tail(s))

\* whitespace_newlines with the single-space shortcut taken for any single
\* character
whitespace_newlines_any_single(from, c, p, to) ==
    IF to = p THEN 0 ELSE count_newlines(get(from, to))

\* the newlines whitespace() counts for the run from..to that began with c
whitespace_newlines(from, c, p, to) ==
    IF c = " " /\ to = p THEN 0 ELSE count_newlines(get(from, to))

\* Lexer::whitespace with newline set from two newlines on
whitespace_newline_from_two(from, c, p, m) ==
    LET to == eat_while(SpaceSet(m), p)
        newlines == count_newlines(get(from, to))
    IN  [kind |-> IF m = "Markup" /\ newlines >= 2 THEN "Parbreak" ELSE "Space",
         cur |-> to, err |-> None, nl |-> newlines > 1, raw |-> raw]

\* Lexer::whitespace; p is the cursor after the first space c
whitespace(from, c, p, m) ==
    LET to == eat_while(SpaceSet(m), p)
        newlines == whitespace_newlines(from, c, p, to)
    IN  [kind |-> IF m = "Markup" /\ newlines >= 2 THEN "Parbreak" ELSE "Space",
         cur |-> to, err |-> None, nl |-> newlines > 0, raw |-> raw]

line_comment(p) == Tok("LineComment", eat_until(Newlines, p))

RECURSIVE block_comment_loop(_, _, _)
block_comment_loop(state, depth, p) ==
    IF done(p) THEN p
    ELSE LET c == peek(p)
             q == eat(p)
         IN  IF state = "*" /\ c = "/"
             THEN IF depth - 1 = 0 THEN q ELSE block_comment_loop("_", depth - 1, q)
             ELSE IF state = "/" /\ c = "*"
             THEN block_comment_loop("_", depth + 1, q)
             ELSE block_comment_loop(c, depth, q)

\* block_comment, were the '*' of the opening delimiter to count for a '*/'
block_comment_reuses_star(p) == Tok("BlockComment", block_comment_loop("*", 1, p))

block_comment(p) == Tok("BlockComment", block_comment_loop("_", 1, p))

(***************************************************************************)
(* Backslash escapes                                                       *)
(***************************************************************************)
HexDigit == AsciiDigit \cup {"a", "b", "c", "d", "e", "f"}
                      \cup {"A", "B", "C", "D", "E", "F"}
DigitValue(c) ==
    CASE c \in AsciiDigit -> CHOOSE n \in 0..9 : ToString(n) = c
      [] c \in {"a", "A"} -> 10
      [] c \in {"b", "B"} -> 11
      [] c \in {"c", "C"} -> 12
      [] c \in {"d", "D"} -> 13
      [] c \in {"e", "E"} -> 14
      [] c \in {"f", "F"} -> 15
      [] OTHER -> 36

RECURSIVE strip_zeros(_)
strip_zeros(s) == IF s # <<>> /\ Head(s) = "0" THEN strip_zeros(Tail(s)) ELSE s

RECURSIVE radix_value(_, _, _)
radix_value(s, base, acc) ==
    IF s = <<>> THEN acc
    ELSE radix_value(Tail(s), base, acc * base + DigitValue(Head(s)))

\* the escape accepted for every u32 up to 0x10FFFF, surrogates included
is_codepoint_with_surrogates(hex) ==
    /\ hex # <<>>
    /\ \A i \in 1..Len(hex) : hex[i] \in HexDigit
    /\ Len(strip_zeros(hex)) <= 6
    /\ radix_value(strip_zeros(hex), 16, 0) <= 1114111

\* u32::from_str_radix(hex, 16).ok().and_then(char::from_u32).is_some():
\* seven significant hex digits are already above 0x10FFFF
is_codepoint(hex) ==
    /\ hex # <<>>
    /\ \A i \in 1..Len(hex) : hex[i] \in HexDigit
    /\ Len(strip_zeros(hex)) <= 6
    /\ LET v == radix_value(strip_zeros(hex), 16, 0)
       IN  v <= 1114111 /\ ~(55296 <= v /\ v <= 57343)

\* Lexer::backslash; p is the cursor after the backslash
backslash(p) ==
    IF atStr(<<"u", "{">>, p)
    THEN LET to == eat_while(AsciiAlphanumeric, p + 2)
             hex == get(p + 2, to)
         IN  IF ~at({"}"}, to)
             THEN Err("unclosed Unicode escape sequence", to)
             ELSE IF ~is_codepoint(hex)
             THEN Err("invalid Unicode codepoint: " \o concat(hex), eat(to))
             ELSE Tok("Escape", eat(to))
    ELSE IF done(p) \/ at(Whitespace, p)
    THEN Tok("Linebreak", p)
    ELSE Tok("Escape", eat(p))

(***************************************************************************)
(* The raw segmenter                                                       *)
(***************************************************************************)
\* push_raw that puts the entry below the entries pushed before it
push_raw_front(stack, k, p) == <<<<k, p>>>> \o stack

\* Lexer::push_raw: the pending entry (kind, end) at cursor p
push_raw(stack, k, p) == Append(stack, <<k, p>>)

all_whitespace(line) == \A i \in 1..Len(line) : line[i] \in Whitespace \cup {Cont}

\* str::trim_end
RECURSIVE trim_end(_)
trim_end(s) ==
    IF s = <<>> THEN s
    ELSE LET i == CHOOSE j \in 1..Len(s) :
                      s[j] # Cont /\ \A k \in (j + 1)..Len(s) : s[k] = Cont
         IN  IF s[i] \in Whitespace THEN trim_end(SubSeq(s, 1, i - 1)) ELSE s

ends_with(s, c) == s # <<>> /\ s[Len(s)] = c
\* inner.strip_suffix(' ').unwrap_or(inner)
strip_suffix_space(s) == IF ends_with(s, " ") THEN SubSeq(s, 1, Len(s) - 1) ELSE s

\* split_newlines: the lines of a slice, the newline characters not kept
RECURSIVE split_newlines_loop(_, _, _, _)
split_newlines_loop(s, from, p, lines) ==
    IF p > Len(s) THEN Append(lines, SubSeq(s, from, Len(s)))
    ELSE IF is_newline(s[p])
    THEN LET q == IF s[p] = "\r" /\ p < Len(s) /\ s[p + 1] = "\n"
                  THEN p + 2 ELSE p + len_utf8(s[p])
         IN  split_newlines_loop(s, q, q, Append(lines, SubSeq(s, from, p - 1)))
    ELSE split_newlines_loop(s, from, p + 1, lines)

split_newlines(s) == split_newlines_loop(s, 1, 1, <<>>)

\* line.chars().take_while(|c| c.is_whitespace()).count()
RECURSIVE leading_whitespace(_)
leading_whitespace(cs) ==
    IF cs # <<>> /\ Head(cs) \in Whitespace THEN 1 + leading_whitespace(Tail(cs)) ELSE 0

\* line.chars().take(n).map(char::len_utf8).sum()
RECURSIVE take_bytes(_, _)
take_bytes(cs, n) ==
    IF cs = <<>> \/ n = 0 THEN 0 ELSE len_utf8(Head(cs)) + take_bytes(Tail(cs), n - 1)

RECURSIVE SeqMin(_)
SeqMin(s) == IF Len(s) = 1 THEN s[1] ELSE Min(Head(s), SeqMin(Tail(s)))

\* the dedent level taken over the lines that are not all whitespace only
dedent_of_without_last(lines) ==
    LET rest == SelectSeq(Tail(lines), LAMBDA l : ~all_whitespace(l))
    IN  IF rest = <<>> THEN 0
        ELSE SeqMin([i \in 1..Len(rest) |-> leading_whitespace(chars(rest[i]))])

\* the dedent level of blocky_raw: over the lines after the first that are not
\* all whitespace, and the last line in any case
dedent_of(lines) ==
    LET rest == SelectSeq(Tail(lines), LAMBDA l : ~all_whitespace(l))
        counted == Append(rest, lines[Len(lines)])
    IN  SeqMin([i \in 1..Len(counted) |-> leading_whitespace(chars(counted[i]))])

\* line_dedent, were the dedent applied to the first line as well
line_dedent_every_line(i, skipped, dedent) == dedent

\* the dedent blocky_raw applies to the line at index i of the emitted lines
line_dedent(i, skipped, dedent) == IF i = 0 /\ ~skipped THEN 0 ELSE dedent

\* the "Add lines" loop of blocky_raw
RECURSIVE add_lines(_, _, _, _, _, _)
add_lines(lines, i, skipped, dedent, p, stack) ==
    IF lines = <<>> THEN [cur |-> p, stack |-> stack]
    ELSE LET line == Head(lines)
             offset == take_bytes(chars(line), line_dedent(i, skipped, dedent))
             p1 == snap(eat_newline(p) + offset)
             s1 == push_raw(stack, "RawTrimmed", p1)
             p2 == snap(p1 + (Len(line) - offset))
             s2 == push_raw(s1, "Text", p2)
         IN  add_lines(Tail(lines), i + 1, skipped, dedent, p2, s2)

\* the inner content of a blocky raw block that starts at p
blocky_inner(p, to) ==
    LET inner == get(p, to)
    IN  IF ends_with(trim_end(inner), BT) THEN strip_suffix_space(inner) ELSE inner

\* Lexer::blocky_raw: the entries it pushes, in push order
blocky_raw(from, end, backticks) ==
    LET p0 == snap(from + backticks)
        lang == at(IdStart, p0)
        p1 == IF lang THEN eat_while(IdContinue, eat(p0)) ELSE p0
        s1 == IF lang THEN push_raw(<<>>, "RawLang", p1) ELSE <<>>
        p2 == eat_if({" "}, p1)
        lines == split_newlines(blocky_inner(p2, end - backticks))
        dedent == dedent_of(lines)
        starts_whitespace == all_whitespace(lines[1])
        ends_whitespace == all_whitespace(lines[Len(lines)])
        p3 == IF starts_whitespace THEN snap(p2 + Len(lines[1])) ELSE p2
        l1 == IF starts_whitespace THEN Tail(lines) ELSE lines
        l2 == IF ends_whitespace /\ l1 # <<>> THEN SubSeq(l1, 1, Len(l1) - 1) ELSE l1
        added == add_lines(l2, 0, starts_whitespace, dedent, p3, s1)
    IN  IF added.cur < end - backticks
        THEN push_raw(added.stack, "RawTrimmed", snap(end - backticks))
        ELSE added.stack

\* inline_raw that does not end the text before a newline
RECURSIVE inline_raw_loop_no_flush(_, _, _)
inline_raw_loop_no_flush(p, to, stack) ==
    IF ~(p < to) THEN push_raw(stack, "Text", p)
    ELSE IF at(Newlines, p)
    THEN inline_raw_loop_no_flush(eat_newline(p), to,
                                  push_raw(stack, "RawTrimmed", eat_newline(p)))
    ELSE inline_raw_loop_no_flush(eat(p), to, stack)

\* Lexer::inline_raw: the entries it pushes, in push order
RECURSIVE inline_raw_loop(_, _, _)
inline_raw_loop(p, to, stack) ==
    IF ~(p < to) THEN push_raw(stack, "Text", p)
    ELSE IF at(Newlines, p)
    THEN LET q == eat_newline(p)
         IN  inline_raw_loop(q, to, push_raw(push_raw(stack, "Text", p), "RawTrimmed", q))
    ELSE inline_raw_loop(eat(p), to, stack)

inline_raw(from, end, backticks) == inline_raw_loop(snap(from + backticks), end - backticks, <<>>)

\* "Find end of raw text": the backticks found in a row and the cursor
RECURSIVE find_raw_end(_, _, _)
find_raw_end(found, backticks, p) ==
    IF ~(found < backticks) \/ done(p) THEN [found |-> found, cur |-> p]
    ELSE find_raw_end(IF peek(p) = BT THEN found + 1 ELSE 0, backticks, eat(p))

\* which segmenter a closed run of backticks uses
is_blocky(backticks) == backticks >= 3

\* raw, were it not to clear the pending stack on entry
raw_rule_keeps_pending(p) ==
    LET from == p - 1
        opened == eat_while({BT}, p)
        backticks == opened - from
        close == find_raw_end(0, backticks, opened)
        end == close.cur
        body == IF is_blocky(backticks) THEN blocky_raw(from, end, backticks)
                ELSE inline_raw(from, end, backticks)
    IN  IF backticks = 2
        THEN [Tok("RawDelim", snap(from + 1)) EXCEPT !.raw = push_raw(raw, "RawDelim", opened)]
        ELSE IF close.found # backticks
        THEN Err("unclosed raw text", end)
        ELSE [Tok("RawDelim", snap(from + backticks))
                 EXCEPT !.raw = Reverse(push_raw(raw \o body, "RawDelim", end))]

\* Lexer::raw; p is the cursor after the first backtick.  The result carries
\* the new pending stack (self.raw is cleared on entry).
raw_rule(p) ==
    LET from == p - 1
        opened == eat_while({BT}, p)
        backticks == opened - from
        close == find_raw_end(0, backticks, opened)
        end == close.cur
        body == IF is_blocky(backticks) THEN blocky_raw(from, end, backticks)
                ELSE inline_raw(from, end, backticks)
    IN  IF backticks = 2
        THEN [Tok("RawDelim", snap(from + 1)) EXCEPT !.raw = push_raw(<<>>, "RawDelim", opened)]
        ELSE IF close.found # backticks
        THEN [Err("unclosed raw text", end) EXCEPT !.raw = <<>>]
        ELSE [Tok("RawDelim", snap(from + backticks))
                 EXCEPT !.raw = Reverse(push_raw(body, "RawDelim", end))]

(***************************************************************************)
(* Markup                                                                  *)
(***************************************************************************)
LinkChars == AsciiAlphanumeric \cup {"!", "#", "$", "%", "&", "*", "+", ",", "-", ".",
                                     "/", ":", ";", "=", "?", "@", "_", "~", "'"}
LinkTrailing == {"!", ",", ".", ":", ";", "?", "'"}

\* the eat_while closure of link_prefix: the cursor and the bracket stack.  A
\* closing bracket pops the stack whether or not it matches.
RECURSIVE link_scan(_, _)
link_scan(p, brackets) ==
    LET c == peek(p)
        top == IF brackets = <<>> THEN NoChar ELSE brackets[Len(brackets)]
        popped == IF brackets = <<>> THEN <<>> ELSE SubSeq(brackets, 1, Len(brackets) - 1)
    IN  IF c \in LinkChars THEN link_scan(eat(p), brackets)
        ELSE IF c \in {"[", "("} THEN link_scan(eat(p), Append(brackets, c))
        ELSE IF c = "]"
        THEN IF top = "[" THEN link_scan(eat(p), popped)
             ELSE [cur |-> p, brackets |-> popped]
        ELSE IF c = ")"
        THEN IF top = "(" THEN link_scan(eat(p), popped)
             ELSE [cur |-> p, brackets |-> popped]
        ELSE [cur |-> p, brackets |-> brackets]

\* "Don't include the trailing characters likely to be part of text"
RECURSIVE link_trim(_, _)
link_trim(from, p) ==
    IF p > from /\ scoutBack1(p) \in LinkTrailing THEN link_trim(from, uneat(p)) ELSE p

\* link_prefix(text[p..]): the end of the prefix and whether brackets balanced
link_prefix(p) ==
    LET scanned == link_scan(p, <<>>)
    IN  [cur |-> link_trim(p, scanned.cur), balanced |-> scanned.brackets = <<>>]

\* Lexer::link; p is the cursor after the scheme
link(p) ==
    LET l == link_prefix(p)
    IN  IF ~l.balanced
        THEN Err("automatic links cannot contain unbalanced brackets, "
                 \o "use the " \o BT \o "link" \o BT \o " function instead", l.cur)
        ELSE Tok("Link", l.cur)

\* whether the digits s, without leading zeros, are at most the digits max
RECURSIVE digits_leq(_, _)
digits_leq(s, max) ==
    IF s = <<>> THEN TRUE
    ELSE IF DigitValue(Head(s)) # DigitValue(Head(max))
    THEN DigitValue(Head(s)) < DigitValue(Head(max))
    ELSE digits_leq(Tail(s), Tail(max))

fits(s, max) ==
    LET sig == strip_zeros(s)
    IN  Len(sig) < Len(max) \/ (Len(sig) = Len(max) /\ digits_leq(sig, max))

\* usize::MAX, 2^64 - 1
UsizeMax == <<"1", "8", "4", "4", "6", "7", "4", "4", "0", "7", "3", "7", "0", "9", "5", "5", "1", "6", "1", "5">>
\* read.parse::<usize>().is_ok() for a run of ASCII digits
parses_usize(s) ==
    s # <<>> /\ (\A i \in 1..Len(s) : s[i] \in AsciiDigit) /\ fits(s, UsizeMax)

\* space_or_end, were it to test for a space of Markup mode
space_or_end_markup_space(p) == done(p) \/ is_space(peek(p), "Markup")

\* Lexer::space_or_end
space_or_end(p) == done(p) \/ at(Whitespace, p)

\* the characters at which eat_until stops in Lexer::text: the TABLE entries and
\* the non-ASCII whitespace
TextBreak == {" ", "\t", "\n", VT, FF, "\r", "\\", "/", "[", "]", "~", "-", ".", "'",
              "\"", "*", "_", ":", "h", BT, "$", "<", ">", "@", "#"}
             \cup (Whitespace \ Ascii)

\* the lookahead of text() without the arm for a space before an alphanumeric
text_continues_no_space(q) ==
    LET c == peek(q)
        r == eat(q)
    IN  \/ c = "/" /\ ~at({"/", "*"}, r)
        \/ c = "-" /\ ~at({"-", "?"}, r)
        \/ c = "." /\ ~atStr(<<".", ".">>, r)
        \/ c = "h" /\ ~atStr(<<"t", "t", "p", ":", "/", "/">>, r) /\ ~atStr(<<"t", "t", "p", "s", ":", "/", "/">>, r)
        \/ c = "@" /\ ~at(IdStart, r)

\* "Continue with the same text node if the thing would become text anyway"
text_continues(q) ==
    LET c == peek(q)
        r == eat(q)
    IN  \/ c = " " /\ at(Alphanumeric, r)
        \/ c = "/" /\ ~at({"/", "*"}, r)
        \/ c = "-" /\ ~at({"-", "?"}, r)
        \/ c = "." /\ ~atStr(<<".", ".">>, r)
        \/ c = "h" /\ ~atStr(<<"t", "t", "p", ":", "/", "/">>, r) /\ ~atStr(<<"t", "t", "p", "s", ":", "/", "/">>, r)
        \/ c = "@" /\ ~at(IdStart, r)

\* Lexer::text: the cursor after the text run
RECURSIVE text_loop(_)
text_loop(p) ==
    LET q == eat_until(TextBreak, p)
    IN  IF ~done(q) /\ text_continues(q) THEN text_loop(eat(q)) ELSE q

text_rule(p) == Tok("Text", text_loop(p))

\* Lexer::numbering; p is the cursor after the first digit
numbering(from, p) ==
    LET to == eat_while(AsciiDigit, p)
        read == get(from, to)
        q == eat_if({"."}, to)
    IN  IF q # to /\ space_or_end(q) /\ parses_usize(read)
        THEN Tok("EnumMarker", q)
        ELSE text_rule(q)

\* ref_trim that also gives back the marker
RECURSIVE ref_trim_past_marker(_)
ref_trim_past_marker(p) ==
    IF scoutBack1(p) \in {".", ":", "@"} THEN ref_trim_past_marker(uneat(p)) ELSE p

RECURSIVE ref_trim(_)
ref_trim(p) == IF scoutBack1(p) \in {".", ":"} THEN ref_trim(uneat(p)) ELSE p

\* Lexer::ref_marker; p is the cursor after the @
ref_marker(p) == Tok("RefMarker", ref_trim(eat_while(IdContinue \cup {":", "."}, p)))

\* Lexer::label; p is the cursor after the <
\* label, were its text to hold letters only
label_letters_only(p) ==
    LET to == eat_while(XidStart, p)
    IN  IF to = p THEN Err("label cannot be empty", to)
        ELSE IF ~at({">"}, to) THEN Err("unclosed label", to)
        ELSE Tok("Label", eat(to))

label(p) ==
    LET to == eat_while(IdContinue \cup {":", "."}, p)
    IN  IF to = p THEN Err("label cannot be empty", to)
        ELSE IF ~at({">"}, to) THEN Err("unclosed label", to)
        ELSE Tok("Label", eat(to))

wordy(c) == c \in Alphanumeric /\ c \notin CjkScript
\* Lexer::in_word; p is the cursor after the star or underscore
in_word(p) == wordy(scoutBack2(p)) /\ wordy(peek(p))

\* Lexer::markup; p is the cursor after the first character c
markup(from, c, p) ==
    IF c = "\\" THEN backslash(p)
    ELSE IF c = BT THEN raw_rule(p)
    ELSE IF c = "h" /\ atStr(<<"t", "t", "p", ":", "/", "/">>, p) THEN link(p + 6)
    ELSE IF c = "h" /\ atStr(<<"t", "t", "p", "s", ":", "/", "/">>, p) THEN link(p + 7)
    ELSE IF c = "<" /\ at(IdContinue, p) THEN label(p)
    ELSE IF c = "@" THEN ref_marker(p)
    ELSE IF c = "." /\ atStr(<<".", ".">>, p) THEN Tok("Shorthand", p + 2)
    ELSE IF c = "-" /\ atStr(<<"-", "-">>, p) THEN Tok("Shorthand", p + 2)
    ELSE IF c = "-" /\ at({"-"}, p) THEN Tok("Shorthand", p + 1)
    ELSE IF c = "-" /\ at({"?"}, p) THEN Tok("Shorthand", p + 1)
    ELSE IF c = "-" /\ at(Numeric, p) THEN Tok("Shorthand", p)
    ELSE IF c = "*" /\ ~in_word(p) THEN Tok("Star", p)
    ELSE IF c = "_" /\ ~in_word(p) THEN Tok("Underscore", p)
    ELSE IF c = "#" THEN Tok("Hash", p)
    ELSE IF c = "[" THEN Tok("LeftBracket", p)
    ELSE IF c = "]" THEN Tok("RightBracket", p)
    ELSE IF c = "'" THEN Tok("SmartQuote", p)
    ELSE IF c = "\"" THEN Tok("SmartQuote", p)
    ELSE IF c = "$" THEN Tok("Dollar", p)
    ELSE IF c = "~" THEN Tok("Shorthand", p)
    ELSE IF c = ":" THEN Tok("Colon", p)
    ELSE IF c = "="
    THEN LET to == eat_while({"="}, p)
         IN  IF space_or_end(to) THEN Tok("HeadingMarker", to) ELSE text_rule(to)
    ELSE IF c = "-" /\ space_or_end(p) THEN Tok("ListMarker", p)
    ELSE IF c = "+" /\ space_or_end(p) THEN Tok("EnumMarker", p)
    ELSE IF c = "/" /\ space_or_end(p) THEN Tok("TermMarker", p)
    ELSE IF c \in AsciiDigit THEN numbering(from, p)
    ELSE text_rule(p)

(***************************************************************************)
(* Math                                                                    *)
(***************************************************************************)
\* the shorthand arms of Lexer::math, in match order: the first character and
\* what eat_if must find after it
MathShorthands == <<
    <<"-", <<">", ">">>>>,
    <<"-", <<">">>>>,
    <<"-", <<"-", ">">>>>,
    <<":", <<"=">>>>,
    <<":", <<":", "=">>>>,
    <<"!", <<"=">>>>,
    <<".", <<".", ".">>>>,
    <<"[", <<"|">>>>,
    <<"<", <<"=", "=", ">">>>>,
    <<"<", <<"-", "-", ">">>>>,
    <<"<", <<"-", "-">>>>,
    <<"<", <<"-", "<">>>>,
    <<"<", <<"-", ">">>>>,
    <<"<", <<"<", "-">>>>,
    <<"<", <<"<", "<">>>>,
    <<"<", <<"=", ">">>>>,
    <<"<", <<"=", "=">>>>,
    <<"<", <<"~", "~">>>>,
    <<"<", <<"=">>>>,
    <<"<", <<"<">>>>,
    <<"<", <<"-">>>>,
    <<"<", <<"~">>>>,
    <<">", <<"-", ">">>>>,
    <<">", <<">", ">">>>>,
    <<"=", <<"=", ">">>>>,
    <<"=", <<">">>>>,
    <<"=", <<":">>>>,
    <<">", <<"=">>>>,
    <<">", <<">">>>>,
    <<"|", <<"-", ">">>>>,
    <<"|", <<"=", ">">>>>,
    <<"|", <<"]">>>>,
    <<"|", <<"|">>>>,
    <<"~", <<"~", ">">>>>,
    <<"~", <<">">>>>>>

\* the table searched from its last arm
math_shorthand_last(c, p) ==
    LET hits == {i \in 1..Len(MathShorthands) :
                    MathShorthands[i][1] = c /\ atStr(MathShorthands[i][2], p)}
    IN  IF hits = {} THEN 0 ELSE CHOOSE i \in hits : \A j \in hits : i >= j

\* the first arm of the table that matches c followed by the input at p (0: none)
math_shorthand(c, p) ==
    LET hits == {i \in 1..Len(MathShorthands) :
                    MathShorthands[i][1] = c /\ atStr(MathShorthands[i][2], p)}
    IN  IF hits = {} THEN 0 ELSE CHOOSE i \in hits : \A j \in hits : i <= j

\* a first grapheme cluster of length 0
grapheme_end_empty(from) == from

\* the first grapheme cluster of the input at from: a character and the
\* characters that extend it
grapheme_end(from) == eat_while(GraphemeExtend, eat(from))

\* Lexer::math_text; p is the cursor after the first character c
math_text(from, c, p) ==
    IF c \in Numeric
    THEN LET to == eat_while(Numeric, p)
             dot == eat_if({"."}, to)
             frac == eat_while(Numeric, dot)
         IN  Tok("Text", IF dot # to /\ frac # dot THEN frac ELSE to)
    ELSE Tok("Text", snap(grapheme_end(from)))

\* Lexer::string; p is the cursor after the opening quote
\* string_scan, were every character after a backslash escaped
RECURSIVE string_scan_any_backslash(_, _)
string_scan_any_backslash(p, escaped) ==
    IF done(p) \/ (peek(p) = "\"" /\ ~escaped) THEN p
    ELSE string_scan_any_backslash(eat(p), peek(p) = "\\")

RECURSIVE string_scan(_, _)
string_scan(p, escaped) ==
    IF done(p) \/ (peek(p) = "\"" /\ ~escaped) THEN p
    ELSE string_scan(eat(p), peek(p) = "\\" /\ ~escaped)

string(p) ==
    LET to == string_scan(p, FALSE)
    IN  IF ~at({"\""}, to) THEN Err("unclosed string", to) ELSE Tok("Str", eat(to))

\* Lexer::math; p is the cursor after the first character c
math(from, c, p) ==
    IF c = "\\" THEN backslash(p)
    ELSE IF c = "\"" THEN string(p)
    ELSE IF math_shorthand(c, p) # 0
    THEN Tok("Shorthand", p + Len(MathShorthands[math_shorthand(c, p)][2]))
    ELSE IF c \in {"*", "-"} THEN Tok("Shorthand", p)
    ELSE IF c = "#" THEN Tok("Hash", p)
    ELSE IF c = "_" THEN Tok("Underscore", p)
    ELSE IF c = "$" THEN Tok("Dollar", p)
    ELSE IF c = "/" THEN Tok("Slash", p)
    ELSE IF c = "^" THEN Tok("Hat", p)
    ELSE IF c = "'" THEN Tok("Prime", p)
    ELSE IF c = "&" THEN Tok("MathAlignPoint", p)
    ELSE IF c \in {SQRT, CBRT, FTRT} THEN Tok("Root", p)
    ELSE IF is_math_id_start(c) /\ at(MathIdContinue, p)
    THEN Tok("MathIdent", eat_while(MathIdContinue, p))
    ELSE math_text(from, c, p)

(***************************************************************************)
(* Code                                                                    *)
(***************************************************************************)
\* keyword(ident)
keyword(ident) ==
    CASE ident = "none" -> Some("None")
      [] ident = "auto" -> Some("Auto")
      [] ident = "true" -> Some("Bool")
      [] ident = "false" -> Some("Bool")
      [] ident = "not" -> Some("Not")
      [] ident = "and" -> Some("And")
      [] ident = "or" -> Some("Or")
      [] ident = "let" -> Some("Let")
      [] ident = "set" -> Some("Set")
      [] ident = "show" -> Some("Show")
      [] ident = "context" -> Some("Context")
      [] ident = "if" -> Some("If")
      [] ident = "else" -> Some("Else")
      [] ident = "for" -> Some("For")
      [] ident = "in" -> Some("In")
      [] ident = "while" -> Some("While")
      [] ident = "break" -> Some("Break")
      [] ident = "continue" -> Some("Continue")
      [] ident = "return" -> Some("Return")
      [] ident = "import" -> Some("Import")
      [] ident = "include" -> Some("Include")
      [] ident = "as" -> Some("As")
      [] OTHER -> None

\* the keyword lookup skipped after any '.', a range operator included
suppressed_after_dots(from) ==
    LET prev == get(0, from)
    IN  ends_with(prev, ".") \/ ends_with(prev, "@")

\* Lexer::ident; p is the cursor after the first character
suppressed(from) ==
    LET prev == get(0, from)
    IN  (ends_with(prev, ".") \/ ends_with(prev, "@"))
        /\ ~(Len(prev) >= 2 /\ SubSeq(prev, Len(prev) - 1, Len(prev)) = <<".", ".">>)

ident_rule(from, p) ==
    LET to == eat_while(IdContinue, p)
        ident == concat(chars(get(from, to)))
    IN  IF ~suppressed(from) /\ keyword(ident) # None
        THEN Tok(keyword(ident)[1], to)
        ELSE IF ident = "_" THEN Tok("Underscore", to)
        ELSE Tok("Ident", to)

\* i64::MAX in bases 2, 8, 10 and 16
I64Max(base) ==
    CASE base = 2 -> <<"1", "1", "1", "1", "1", "1", "1", "1", "1", "1", "1", "1", "1", "1", "1", "1", "1"
                     , "1", "1", "1", "1", "1", "1", "1", "1", "1", "1", "1", "1", "1", "1", "1", "1"
                     , "1", "1", "1", "1", "1", "1", "1", "1", "1", "1", "1", "1", "1", "1", "1", "1"
                     , "1", "1", "1", "1", "1", "1", "1", "1", "1", "1", "1", "1", "1", "1">>
      [] base = 8 -> <<"7", "7", "7", "7", "7", "7", "7", "7", "7", "7", "7", "7", "7", "7", "7", "7", "7", "7", "7", "7", "7">>
      [] base = 16 -> <<"7", "F", "F", "F", "F", "F", "F", "F", "F", "F", "F", "F", "F", "F", "F", "F">>
      [] OTHER -> <<"9", "2", "2", "3", "3", "7", "2", "0", "3", "6", "8", "5", "4", "7", "7", "5", "8", "0", "7">>

\* i64::from_str_radix(number, base).is_ok() for a slice that has no sign
parses_i64(number, base) ==
    /\ number # <<>>
    /\ \A i \in 1..Len(number) : DigitValue(number[i]) < base
    /\ fits(number, I64Max(base))

\* number.parse::<f64>().is_ok(): ( Digit+ | Digit+ '.' Digit* | Digit* '.' Digit+ )
\* and then an optional exponent 'e' Sign? Digit+
parses_f64(number) ==
    LET n == Len(number)
        es == {i \in 1..n : number[i] \in {"e", "E"}}
        e == IF es = {} THEN n + 1 ELSE CHOOSE i \in es : \A j \in es : i <= j
        mant == SubSeq(number, 1, e - 1)
        exp0 == SubSeq(number, e + 1, n)
        exp == IF exp0 # <<>> /\ Head(exp0) \in {"+", "-"} THEN Tail(exp0) ELSE exp0
        dots == {i \in 1..Len(mant) : mant[i] = "."}
    IN  /\ \A i \in 1..Len(mant) : mant[i] \in AsciiDigit \cup {"."}
        /\ Cardinality(dots) <= 1
        /\ Len(mant) > Cardinality(dots)
        /\ e <= n => (exp # <<>> /\ \A i \in 1..Len(exp) : exp[i] \in AsciiDigit)

NumberSuffixes == {"pt", "mm", "cm", "in", "deg", "rad", "em", "fr", "%"}

\* the base of a number whose first character is c, and the cursor after its prefix
number_base(c, p) ==
    IF c = "0" /\ at({"b"}, p) THEN 2
    ELSE IF c = "0" /\ at({"o"}, p) THEN 8
    ELSE IF c = "0" /\ at({"x"}, p) THEN 16
    ELSE 10

\* the cursor after the optional fractional part; the dot is eaten before the
\* base is tested
number_fraction(c, base, p) ==
    IF c # "." /\ ~atStr(<<".", ".">>, p) /\ ~is_id_start(scout1(p)) /\ at({"."}, p)
    THEN IF base = 10 THEN eat_while(AsciiDigit, eat(p)) ELSE eat(p)
    ELSE p

\* the cursor after the optional exponent; the marker is eaten before the base
\* is tested
number_exponent(base, p) ==
    IF ~atStr(<<"e", "m">>, p) /\ at({"e", "E"}, p)
    THEN IF base = 10 THEN eat_while(AsciiDigit, eat_if({"+", "-"}, eat(p))) ELSE eat(p)
    ELSE p

number_error(base, number) ==
    CASE base = 2 -> "invalid binary number: 0b" \o concat(number)
      [] base = 8 -> "invalid octal number: 0o" \o concat(number)
      [] base = 16 -> "invalid hexadecimal number: 0x" \o concat(number)
      [] OTHER -> "invalid number: " \o concat(number)

\* number, were it to look at the suffix before the digit slice
number_suffix_first(from, c, p) ==
    LET base == number_base(c, p)
        digits == IF base # 10 THEN eat(p) ELSE from
        int == eat_while(IF base = 16 THEN AsciiAlphanumeric ELSE AsciiDigit,
                         IF base # 10 THEN eat(p) ELSE p)
        suffix_start == number_exponent(base, number_fraction(c, base, int))
        to == IF at({"%"}, suffix_start) THEN eat(suffix_start)
              ELSE eat_while(AsciiAlphanumeric, suffix_start)
        slice == get(digits, suffix_start)
        suffix == concat(get(suffix_start, to))
        is_int == parses_i64(slice, base)
    IN  IF suffix # "" /\ suffix \notin NumberSuffixes
        THEN Err("invalid number suffix: " \o suffix, to)
        ELSE IF suffix # "" THEN Tok("Numeric", to)
        ELSE IF ~is_int /\ ~(base = 10 /\ parses_f64(slice))
        THEN Err(number_error(base, slice), to)
        ELSE Tok(IF is_int THEN "Int" ELSE "Float", to)

\* Lexer::number; p is the cursor after the first character c
number(from, c, p) ==
    LET base == number_base(c, p)
        digits == IF base # 10 THEN eat(p) ELSE from
        int == eat_while(IF base = 16 THEN AsciiAlphanumeric ELSE AsciiDigit,
                         IF base # 10 THEN eat(p) ELSE p)
        suffix_start == number_exponent(base, number_fraction(c, base, int))
        to == IF at({"%"}, suffix_start) THEN eat(suffix_start)
              ELSE eat_while(AsciiAlphanumeric, suffix_start)
        slice == get(digits, suffix_start)
        suffix == concat(get(suffix_start, to))
        is_int == parses_i64(slice, base)
    IN  IF ~is_int /\ ~(base = 10 /\ parses_f64(slice))
        THEN Err(number_error(base, slice), to)
        ELSE IF suffix = "" THEN Tok(IF is_int THEN "Int" ELSE "Float", to)
        ELSE IF suffix \notin NumberSuffixes
        THEN Err("invalid number suffix: " \o suffix, to)
        ELSE Tok("Numeric", to)

\* Lexer::code; p is the cursor after the first character c
code(from, c, p) ==
    IF c = BT THEN raw_rule(p)
    ELSE IF c = "<" /\ at(IdContinue, p) THEN label(p)
    ELSE IF c \in AsciiDigit THEN number(from, c, p)
    ELSE IF c = "." /\ at(AsciiDigit, p) THEN number(from, c, p)
    ELSE IF c = "\"" THEN string(p)
    ELSE IF c = "=" /\ at({"="}, p) THEN Tok("EqEq", eat(p))
    ELSE IF c = "!" /\ at({"="}, p) THEN Tok("ExclEq", eat(p))
    ELSE IF c = "<" /\ at({"="}, p) THEN Tok("LtEq", eat(p))
    ELSE IF c = ">" /\ at({"="}, p) THEN Tok("GtEq", eat(p))
    ELSE IF c = "+" /\ at({"="}, p) THEN Tok("PlusEq", eat(p))
    ELSE IF c \in {"-", MINUS} /\ at({"="}, p) THEN Tok("HyphEq", eat(p))
    ELSE IF c = "*" /\ at({"="}, p) THEN Tok("StarEq", eat(p))
    ELSE IF c = "/" /\ at({"="}, p) THEN Tok("SlashEq", eat(p))
    ELSE IF c = "." /\ at({"."}, p) THEN Tok("Dots", eat(p))
    ELSE IF c = "=" /\ at({">"}, p) THEN Tok("Arrow", eat(p))
    ELSE IF c = "{" THEN Tok("LeftBrace", p)
    ELSE IF c = "}" THEN Tok("RightBrace", p)
    ELSE IF c = "[" THEN Tok("LeftBracket", p)
    ELSE IF c = "]" THEN Tok("RightBracket", p)
    ELSE IF c = "(" THEN Tok("LeftParen", p)
    ELSE IF c = ")" THEN Tok("RightParen", p)
    ELSE IF c = "$" THEN Tok("Dollar", p)
    ELSE IF c = "," THEN Tok("Comma", p)
    ELSE IF c = ";" THEN Tok("Semicolon", p)
    ELSE IF c = ":" THEN Tok("Colon", p)
    ELSE IF c = "." THEN Tok("Dot", p)
    ELSE IF c = "+" THEN Tok("Plus", p)
    ELSE IF c \in {"-", MINUS} THEN Tok("Minus", p)
    ELSE IF c = "*" THEN Tok("Star", p)
    ELSE IF c = "/" THEN Tok("Slash", p)
    ELSE IF c = "=" THEN Tok("Eq", p)
    ELSE IF c = "<" THEN Tok("Lt", p)
    ELSE IF c = ">" THEN Tok("Gt", p)
    ELSE IF is_id_start(c) THEN ident_rule(from, p)
    ELSE Err("the character " \o BT \o c \o BT \o " is not valid in code", p)

(***************************************************************************)
(* The facade                                                              *)
(***************************************************************************)
Modes == {"Markup", "Math", "Code", "Raw"}

\* the Raw branch of next that skips a character when the stack is empty
raw_next_skips ==
    IF raw = <<>>
    THEN [kind |-> "End", cur |-> eat(cursor), err |-> error, nl |-> newline, raw |-> raw]
    ELSE [kind |-> raw[Len(raw)][1], cur |-> snap(raw[Len(raw)][2]),
          err |-> error, nl |-> newline, raw |-> SubSeq(raw, 1, Len(raw) - 1)]

\* the Raw branch of next that reports End one entry early
raw_next_keeps_last ==
    IF Len(raw) <= 1
    THEN [kind |-> "End", cur |-> cursor, err |-> error, nl |-> newline, raw |-> raw]
    ELSE [kind |-> raw[Len(raw)][1], cur |-> snap(raw[Len(raw)][2]),
          err |-> error, nl |-> newline, raw |-> SubSeq(raw, 1, Len(raw) - 1)]

\* the Raw branch of next taken after the reset of newline and error
raw_next_resets ==
    IF raw = <<>>
    THEN [kind |-> "End", cur |-> cursor, err |-> None, nl |-> FALSE, raw |-> raw]
    ELSE [kind |-> raw[Len(raw)][1], cur |-> snap(raw[Len(raw)][2]),
          err |-> None, nl |-> FALSE, raw |-> SubSeq(raw, 1, Len(raw) - 1)]

\* the Raw branch of Lexer::next: pop one pending entry and jump to its end
raw_next ==
    IF raw = <<>>
    THEN [kind |-> "End", cur |-> cursor, err |-> error, nl |-> newline, raw |-> raw]
    ELSE [kind |-> raw[Len(raw)][1], cur |-> snap(raw[Len(raw)][2]),
          err |-> error, nl |-> newline, raw |-> SubSeq(raw, 1, Len(raw) - 1)]

\* the mode dispatch of Lexer::next
dispatch(from, c, p) ==
    CASE mode = "Markup" -> markup(from, c, p)
      [] mode = "Math" -> math(from, c, p)
      [] mode = "Code" -> code(from, c, p)

\* Lexer::next: the kind returned and the fields after the call
next ==
    IF mode = "Raw" THEN raw_next
    ELSE LET c == peek(cursor)
             p == eat(cursor)
         IN  IF c = NoChar THEN Tok("End", cursor)
             ELSE IF is_space(c, mode) THEN whitespace(cursor, c, p, mode)
             ELSE IF c = "/" /\ at({"/"}, p) THEN line_comment(eat(p))
             ELSE IF c = "/" /\ at({"*"}, p) THEN block_comment(eat(p))
             ELSE IF c = "*" /\ at({"/"}, p)
             THEN Err("unexpected end of block comment", eat(p))
             ELSE dispatch(cursor, c, p)

\* the tokens of the raw block being replayed, after a next that returned t
replay(t) ==
    IF mode # "Raw"
    THEN IF t.kind = "RawDelim"
         THEN <<[kind |-> t.kind, from |-> cursor, to |-> t.cur]>>
         ELSE <<>>
    ELSE IF replayed # <<>> /\ replayed[Len(replayed)].kind # "End"
    THEN Append(replayed, [kind |-> t.kind, from |-> cursor, to |-> t.cur])
    ELSE replayed

\* the next calls in a row that returned End, counted up to this many
MaxEnds == 2

CallNext ==
    LET t == next
    IN  /\ cursor' = t.cur
        /\ newline' = t.nl
        /\ error' = t.err
        /\ raw' = t.raw
        /\ op' = "next"
        /\ kind' = t.kind
        /\ start' = cursor
        /\ nmode' = mode
        /\ pending' = (error # None)
        /\ taken' = None
        /\ ends' = IF t.kind = "End" THEN Min(ends + 1, MaxEnds) ELSE 0
        /\ replayed' = replay(t)
        /\ UNCHANGED <<text, mode>>

\* Lexer::set_mode
SetModeTo(m) ==
    /\ mode' = m
    /\ op' = "set_mode"
    /\ kind' = "NoCall"
    /\ start' = 0
    /\ nmode' = m
    /\ pending' = FALSE
    /\ taken' = None
    /\ ends' = 0
    /\ UNCHANGED <<text, cursor, newline, raw, error, replayed>>

CallSetMode == \E m \in Modes : SetModeTo(m)

\* the caller enters Raw mode after the RawDelim that opens a raw block
EnterRaw == op = "next" /\ kind = "RawDelim" /\ mode # "Raw" /\ SetModeTo("Raw")

\* Lexer::jump
CallJump ==
    \E i \in 0..(TextLen + 1) :
        /\ cursor' = snap(i)
        /\ op' = "jump"
        /\ kind' = "NoCall"
        /\ start' = 0
        /\ nmode' = mode
        /\ pending' = FALSE
        /\ taken' = None
        /\ ends' = 0
        /\ replayed' = <<>>
        /\ UNCHANGED <<text, mode, newline, raw, error>>

\* take_error that returns the message and leaves it in the slot
CallTakeError_peeks ==
    /\ taken' = error
    /\ op' = IF op = "next" THEN "take_error" ELSE "take_error_again"
    /\ UNCHANGED <<text, cursor, mode, newline, raw, error, kind, start, nmode, pending,
                   ends, replayed>>

\* Lexer::take_error
CallTakeError ==
    /\ taken' = error
    /\ error' = None
    /\ op' = IF op = "next" THEN "take_error" ELSE "take_error_again"
    /\ UNCHANGED <<text, cursor, mode, newline, raw, kind, start, nmode, pending,
                   ends, replayed>>

Next == CallNext \/ CallSetMode \/ CallJump \/ CallTakeError

\* a caller that lexes and replays the raw blocks it opens
NextReplay == CallNext \/ EnterRaw

(***************************************************************************)
(* Inputs                                                                  *)
(***************************************************************************)
\* the UTF-8 byte slots of a sequence of characters
RECURSIVE Encode(_)
Encode(cs) ==
    IF cs = <<>> THEN <<>>
    ELSE <<Head(cs)>> \o [i \in 1..(len_utf8(Head(cs)) - 1) |-> Cont] \o Encode(Tail(cs))

RECURSIVE Flatten(_)
Flatten(fs) == IF fs = <<>> THEN <<>> ELSE Head(fs) \o Flatten(Tail(fs))

\* the sequences of at most n of the given fragments, joined
Joined(frags, n) == {Flatten(fs) : fs \in UNION {[1..k -> frags] : k \in 0..n}}

\* Lexer::new
New(inputs, modes) ==
    /\ text \in inputs
    /\ mode \in modes
    /\ cursor = 0
    /\ newline = FALSE
    /\ error = None
    /\ raw = <<>>
    /\ op = "new"
    /\ kind = "NoCall"
    /\ start = 0
    /\ nmode = mode
    /\ pending = FALSE
    /\ taken = None
    /\ ends = 0
    /\ replayed = <<>>

\* Inputs that reach every error of the lexer, trivia, raw text and text.
MaxFrags == 2
Fragments == {
    <<" ">>, <<"a">>, <<"/", "*">>, <<"*", "/">>, <<"\"">>, <<BT>>, <<BT, "\n">>, <<"<", "a">>,
    <<"\\", "u", "{">>, <<"1", "e">>, <<"@", ".">>, <<"\n">>, <<EACUTE>>, <<"h", "t", "t", "p", ":", "/", "/">> \o <<"(">>}

Init == New({Encode(cs) : cs \in Joined(Fragments, MaxFrags)}, Modes)
Spec == Init /\ [][Next]_vars

\* Runs of whitespace of every kind, between text, comments and strings.
MaxWs == 3
WsChars == {<<" ">>, <<"\t">>, <<"\n">>, <<"\r">>, <<NEL>>, <<LS>>, <<NBSP>>, <<"a">>,
            <<"/", "*">>}

InitWs == New({Encode(cs) : cs \in Joined(WsChars, MaxWs)}, Modes)
SpecWs == InitWs /\ [][Next]_vars

\* Raw blocks: an opening run of one or three backticks, a body, the closing
\* run.
MaxBody == 4
BodyFragments == {<<"a">>, <<" ">>, <<"\n">>, <<"\n", " ">>, <<"\r", "\n">>, <<BT>>, <<EACUTE>>}
Fences == {<<BT>>, <<BT, BT, BT>>}

InitRaw ==
    New({Encode(f \o body \o f) : f \in Fences, body \in Joined(BodyFragments, MaxBody)},
        {"Markup", "Code"})
SpecRaw == InitRaw /\ [][NextReplay]_vars

\* a caller that lexes in one mode and repositions the cursor
NextLex == CallNext \/ CallJump

\* Code: keywords and identifiers after '.', '..', '@' and spaces.
MaxIdent == 3
IdentFragments == {<<"l", "e", "t">>, <<"i", "n">>, <<"a", "s">>, <<"_">>, <<".">>, <<"@">>,
                   <<"a">>, <<"-">>, <<" ">>}

InitIdent == New({Encode(cs) : cs \in Joined(IdentFragments, MaxIdent)}, {"Code"})
SpecIdent == InitIdent /\ [][NextLex]_vars

\* Operators and shorthands: runs of operator characters, with a letter, a
\* digit and the openers of comments, labels and numbers.
MaxOps == 2
OpFragments == {<<"<">>, <<"=">>, <<">">>, <<"-">>, <<":">>, <<"~">>, <<".">>, <<"|">>,
                <<"*">>, <<"/">>, <<"a">>, <<"1">>, <<"?">>, <<"!">>, <<"[">>, <<"]">>, <<"+">>,
                <<"<", "=">>, <<"=", ">">>, <<"<", "-">>, <<"-", ">">>, <<":", ":">>,
                <<"~", "~">>, <<">", ">">>, <<"-", "-">>, <<"<", "<">>}

InitOps == New({Encode(cs) : cs \in Joined(OpFragments, MaxOps)}, {"Markup", "Math", "Code"})
SpecOps == InitOps /\ [][NextLex]_vars

\* Markup documents: sentences of words, spaces and newlines, and fenced raw
\* blocks with or without a language tag and with indented lines.
MaxWords == 4
DocWords == {<<"H", "e", "l", "l", "o", ",">>, <<" ">>, <<"w", "o", "r", "l", "d", "!">>,
             <<"\n">>}
MaxLines == 3
DocLines == {<<"\n", " ", " ", "a">>, <<"\n", " ", " ", "b">>, <<"\n">>, <<"\n", "c">>,
             <<"\n", " ">>}
DocLangs == {<<>>, <<"r", "u", "s", "t">>}

InitDoc ==
    New({Encode(cs) : cs \in Joined(DocWords, MaxWords)}
            \cup {Encode(<<BT, BT, BT>> \o lang \o body \o <<BT, BT, BT>>) :
                      lang \in DocLangs, body \in Joined(DocLines, MaxLines)},
        {"Markup"})
SpecDoc == InitDoc /\ [][NextReplay]_vars

\* Backslashes: Unicode escapes with valid, surrogate, too large and non-hex
\* digits, closed or not, and a backslash before the end, a space, a newline
\* and other characters.
MaxHex == 3
HexFragments == {<<"0">>, <<"1", "F">>, <<"6", "0">>, <<"Z", "Z">>, <<"D", "8">>,
                 <<"D", "F">>, <<"E", "0">>, <<"f", "f">>, <<"1", "0">>, <<"1", "1">>, <<"0", "0">>}
EscClosers == {<<"}">>, <<>>, <<" ">>}
EscTails == {<<>>, <<" ">>, <<"\n">>, <<NBSP>>, <<"a">>, <<EACUTE, "a">>, <<"u">>,
             <<"u", "a">>, <<"\\">>, <<"{">>}
EscHeads == {<<>>, <<"a", " ">>}

\* a caller that lexes the input from its start to its end
NextScan == CallNext

InitEsc ==
    New({Encode(head \o <<"\\", "u", "{">> \o hex \o close) :
             head \in EscHeads, hex \in Joined(HexFragments, MaxHex), close \in EscClosers}
            \cup {Encode(head \o <<"\\">> \o tail) : head \in EscHeads, tail \in EscTails},
        {"Markup", "Math"})
SpecEsc == InitEsc /\ [][NextScan]_vars

\* Markers: runs of '=' and single '-', '+', '/' before spaces of the mode,
\* other whitespace, letters and the end, and the two documented headings.
MaxMark == 3
MarkChars == {<<"=">>, <<"-">>, <<"+">>, <<"/">>, <<" ">>, <<"\n">>, <<NBSP>>, <<"a">>}
MarkDocs == {<<"=", "=", " ", "H", "e", "a", "d", "i", "n", "g", "\n">>,
             <<"=", "=", "n", "o", "p", "e">>}

InitMark == New({Encode(cs) : cs \in Joined(MarkChars, MaxMark) \cup MarkDocs}, {"Markup"})
SpecMark == InitMark /\ [][NextLex]_vars

\* Links: a scheme, then letters, dots, spaces and brackets of both kinds,
\* matched, mismatched and unclosed.
MaxLink == 4
LinkSchemes == {<<"h", "t", "t", "p", ":", "/", "/">>, <<"h", "t", "t", "p", "s", ":", "/", "/">>}
LinkFragments == {<<"a">>, <<".">>, <<" ">>, <<"(">>, <<")">>, <<"[">>, <<"]">>}

InitLink ==
    New({Encode(scheme \o cs) : scheme \in LinkSchemes, cs \in Joined(LinkFragments, MaxLink)},
        {"Markup"})
SpecLink == InitLink /\ [][NextScan]_vars

\* Numbers: a base prefix or none, then digits valid and invalid in the base,
\* dots, exponent markers, signs and suffixes; the largest i64 and its
\* successor in bases 10 and 16; the documented expression.
MaxNum == 4
NumPrefixes == {<<>>, <<"0", "b">>, <<"0", "o">>, <<"0", "x">>}
NumFragments == {<<"1">>, <<"8">>, <<"F">>, <<".">>, <<"e">>, <<"-">>, <<"p", "t">>,
                 <<"e", "m">>, <<"%">>, <<" ">>}
NumLimits == {I64Max(10), SubSeq(I64Max(10), 1, 18) \o <<"8">>,
              <<"0", "x">> \o I64Max(16), <<"0", "x", "8">> \o [i \in 1..15 |-> "0"]}
NumTails == {<<>>, <<"p", "t">>, <<".", "5">>}
NumDocs == {<<"0", "x", "F", "F", " ", "+", " ", "1", ".", "5", "e", "-", "2", "p", "t">>}

InitNum ==
    New({Encode(prefix \o cs) : prefix \in NumPrefixes, cs \in Joined(NumFragments, MaxNum)}
            \cup {Encode(n \o tail) : n \in NumLimits, tail \in NumTails}
            \cup {Encode(doc) : doc \in NumDocs},
        {"Code"})
SpecNum == InitNum /\ [][NextScan]_vars

\* Block comments: openers and closers, whole and split, nested, unclosed and
\* stray, with a letter between and after them.
MaxComment == 5
CommentFragments == {<<"/", "*">>, <<"*", "/">>, <<"/">>, <<"*">>, <<"a">>}

InitComment == New({Encode(cs) : cs \in Joined(CommentFragments, MaxComment)}, Modes \ {"Raw"})
SpecComment == InitComment /\ [][NextScan]_vars

\* Strings: an opening quote, then quotes, backslashes, letters and newlines.
MaxStr == 6
StrFragments == {<<"\"">>, <<"\\">>, <<"a">>, <<"\n">>}

InitStr == New({Encode(<<"\"">> \o cs) : cs \in Joined(StrFragments, MaxStr)}, {"Math", "Code"})
SpecStr == InitStr /\ [][NextScan]_vars

\* Backtick runs met with entries pending: runs of one and three backticks,
\* closed and unclosed, lexed by a caller that switches modes at will and
\* never repositions the cursor.
MaxRuns == 4
RunFragments == {<<BT>>, <<BT, BT, BT>>, <<"a">>, <<"\n">>}

InitRuns == New({Encode(cs) : cs \in Joined(RunFragments, MaxRuns)}, {"Markup", "Code"})
NextModes == CallNext \/ CallSetMode
SpecRuns == InitRuns /\ [][NextModes]_vars

\* Labels: angle brackets around letters, hyphens, colons and nothing, in
\* every mode and from every offset.
MaxLabel == 4
LabelFragments == {<<"<">>, <<">">>, <<"a">>, <<"-">>, <<":">>, <<" ">>}
NextAny == CallNext \/ CallSetMode \/ CallJump

InitLabel == New({Encode(cs) : cs \in Joined(LabelFragments, MaxLabel)}, Modes)
SpecLabel == InitLabel /\ [][NextAny]_vars

\* Raw blocks with whitespace of several kinds: bodies of letters, spaces,
\* tabs, no-break spaces, newlines, indented lines and backticks.
MaxTrim == 4
TrimFragments == {<<"a">>, <<" ">>, <<"\t">>, <<NBSP>>, <<"\n">>, <<"\n", " ">>, <<BT>>,
                  <<EACUTE>>}

InitTrim ==
    New({Encode(f \o body \o f) : f \in Fences, body \in Joined(TrimFragments, MaxTrim)},
        {"Markup"})
SpecTrim == InitTrim /\ [][NextReplay]_vars

(***************************************************************************)
(* Properties                                                              *)
(***************************************************************************)
\* the input the most recent next consumed
Span == get(start, cursor)
HasNewline(s) == \E i \in 1..Len(s) : s[i] \in Newlines
WsKinds == {"Space", "Parbreak"}
NonRawCall == op = "next" /\ nmode # "Raw"
\* the token is a maximal run of spaces of mode m
MaximalRun(m) ==
    /\ \A i \in 1..Len(Span) : Span[i] = Cont \/ is_space(Span[i], m)
    /\ ~is_space(peek(cursor), m)

\* C1: right after a next made in Markup, Math or Code mode, the error slot
\* holds a message exactly if the call returned Error; the message of an
\* earlier Error is gone after a later call that returns another kind.
C1_ErrorIffErrorKind == NonRawCall => ((error # None) <=> (kind = "Error"))

\* an Error's message was still in the slot when a later non-Raw next
\* returned another kind, and the slot is empty now
C1_Witness == NonRawCall /\ pending /\ kind # "Error" /\ error = None

\* C2: a next made in Markup, Math or Code mode with input left returns a
\* kind other than End and moves the cursor forward; every Error token has
\* consumed at least one character.
C2_NonRawProgress ==
    /\ (NonRawCall /\ start < TextLen) => (kind # "End" /\ cursor > start)
    /\ (op = "next" /\ kind = "Error") => cursor > start

\* an Error token that ends before the end of the input
C2_Witness == NonRawCall /\ kind = "Error" /\ start < cursor /\ cursor < TextLen

C4_Original == (op = "next" /\ start < TextLen) => cursor > start

\* C4, amended: a next made with input left moves the cursor forward when the
\* mode is Markup, Math or Code; in Raw mode the cursor moves only to the end
\* offset of a popped entry, and stays where it is when the stack is empty.
C4_Amended ==
    (op = "next" /\ start < TextLen) =>
        IF nmode # "Raw" THEN cursor > start
        ELSE (raw = <<>> /\ kind = "End") => cursor = start

\* a Raw-mode next on an empty stack that returned End with input left
C4_Witness ==
    op = "next" /\ nmode = "Raw" /\ kind = "End" /\ cursor = start /\ start < TextLen

\* C5: once next has returned End, with neither jump nor set_mode since (kind
\* is still "End"), the next call returns End again and leaves the cursor,
\* the pending stack and the mode as they were.
C5_EndFixpoint ==
    [][(kind = "End" /\ op' = "next")
           => (kind' = "End" /\ cursor' = cursor /\ raw' = raw /\ mode' = mode)]_vars

\* End has been returned twice in a row
C5_Witness == op = "next" /\ kind = "End" /\ ends >= 2

NewlinesIn(s) ==
    Cardinality({i \in 1..Len(s) : s[i] \in Newlines})
    - Cardinality({i \in 1..(Len(s) - 1) : s[i] = "\r" /\ s[i + 1] = "\n"})

\* C9: a next that starts at a space of the mode consumes the maximal run of
\* such spaces and returns Parbreak exactly if the mode is Markup and the run
\* holds at least two newlines (CR LF counts once), and Space otherwise.
C9_ParbreakIffTwoNewlines ==
    (NonRawCall /\ start < TextLen /\ is_space(text[start + 1], nmode)) =>
        /\ kind \in WsKinds
        /\ MaximalRun(nmode)
        /\ (kind = "Parbreak") <=> (nmode = "Markup" /\ NewlinesIn(Span) >= 2)

\* a Parbreak whose run holds a CR LF, and so more newline code points than
\* newlines
C9_Witness ==
    /\ NonRawCall /\ kind = "Parbreak"
    /\ \E i \in 1..(Len(Span) - 1) : Span[i] = "\r" /\ Span[i + 1] = "\n"

\* the kinds of the replayed tokens after the opening RawDelim, End excluded
ReplayedKinds ==
    LET n == Len(replayed)
        m == IF replayed[n].kind = "End" THEN n - 1 ELSE n
    IN  [i \in 1..(m - 1) |-> replayed[i + 1].kind]

Alternating(ks) ==
    \A i \in 1..Len(ks) :
        /\ ks[i] \in {"RawTrimmed", "Text"}
        /\ i > 1 => ks[i] # ks[i - 1]

\* C10: the tokens replayed in Raw mode after the opening RawDelim are an
\* optional RawLang, then RawTrimmed and Text in strict alternation, then one
\* closing RawDelim and nothing but End after it; each span starts where the
\* one before ended, the first at the end of the opening delimiter, and the
\* closing RawDelim ends right after the closing backticks.
C10_RawReplay ==
    replayed # <<>> =>
        LET n == Len(replayed)
            ks == ReplayedKinds
            k == Len(ks)
            closed == k > 0 /\ ks[k] = "RawDelim"
            afterLang == IF k > 0 /\ ks[1] = "RawLang" THEN 2 ELSE 1
            width == replayed[1].to - replayed[1].from
        IN  /\ replayed[1].kind = "RawDelim"
            /\ \A i \in (replayed[1].from + 1)..replayed[1].to : text[i] = BT
            /\ \A i \in 2..n : /\ replayed[i].from = replayed[i - 1].to
                               /\ replayed[i].from <= replayed[i].to
            /\ Alternating(SubSeq(ks, afterLang, IF closed THEN k - 1 ELSE k))
            /\ replayed[n].kind = "End" =>
                   /\ closed
                   /\ replayed[n].from = replayed[n].to
                   /\ \A i \in (replayed[n].to - width + 1)..replayed[n].to : text[i] = BT

\* a complete replay with a language tag and two lines of text
C10_Witness ==
    /\ replayed # <<>>
    /\ replayed[Len(replayed)].kind = "End"
    /\ Len(replayed) >= 8
    /\ replayed[2].kind = "RawLang"

\* the length of the run of backticks that opens the raw block being replayed
OpeningRun == eat_while({BT}, replayed[1].from) - replayed[1].from
\* the bytes a RawDelim of a block opened by n backticks spans
DelimWidth(n) == IF n = 2 THEN 1 ELSE n
\* the replayed token at index i covers backticks only, as many as w
SpansBackticks(i, w) ==
    /\ replayed[i].to - replayed[i].from = w
    /\ \A j \in (replayed[i].from + 1)..replayed[i].to : text[j] = BT

\* C11 as stated: the opening RawDelim spans exactly the opening backticks
\* (one backtick for a run of two), and the closing RawDelim replayed in Raw
\* mode spans exactly as many closing backticks and no character of the body.
C11_Original ==
    replayed # <<>> =>
        /\ SpansBackticks(1, DelimWidth(OpeningRun))
        /\ \A i \in 2..Len(replayed) :
               replayed[i].kind = "RawDelim" => SpansBackticks(i, DelimWidth(OpeningRun))

\* a closing RawDelim whose span starts with a space of the body
C11_Witness ==
    /\ replayed # <<>>
    /\ \E i \in 2..Len(replayed) :
           /\ replayed[i].kind = "RawDelim"
           /\ replayed[i].to - replayed[i].from = DelimWidth(OpeningRun) + 1
           /\ text[replayed[i].from + 1] = " "

\* C12 as stated: the pending stack is non-empty only while the mode is Raw.
C12_Original == mode # "Raw" => raw = <<>>

\* C12, amended: the pending stack becomes non-empty only by a next call in
\* Markup or Code mode that returns RawDelim, jump and set_mode and take_error
\* leave it as it is, and it is empty when a next call in Raw mode returns End.
C12_Amended ==
    [][/\ (raw = <<>> /\ raw' # <<>>) =>
              (op' = "next" /\ nmode' \in {"Markup", "Code"} /\ kind' = "RawDelim")
       /\ op' # "next" => raw' = raw
       /\ (op' = "next" /\ nmode' = "Raw" /\ kind' = "End") => raw' = <<>>]_vars

\* the segmenter has filled the stack and the mode is still the one it ran in
C12_Witness ==
    /\ op = "next" /\ kind = "RawDelim" /\ mode \in {"Markup", "Code"}
    /\ Len(raw) >= 3

\* the end offsets of the pending entries in the order next pops them
PopOrderEnds == [i \in 1..Len(raw) |-> raw[Len(raw) + 1 - i][2]]

\* C13: right after a raw block was segmented, the end offsets of the pending
\* entries never decrease in pop order and lie between the cursor returned
\* with the opening RawDelim and the end of the closing backticks, which is
\* the end offset popped last and lies inside the text.
C13_PendingEndsOrdered ==
    (op = "next" /\ nmode # "Raw" /\ kind = "RawDelim") =>
        /\ raw # <<>>
        /\ \A i \in 1..Len(raw) :
               /\ cursor <= PopOrderEnds[i]
               /\ PopOrderEnds[i] <= PopOrderEnds[Len(raw)]
               /\ i > 1 => PopOrderEnds[i - 1] <= PopOrderEnds[i]
        /\ PopOrderEnds[Len(raw)] <= TextLen
        /\ text[PopOrderEnds[Len(raw)]] = BT

\* a block whose pending end offsets hold equal and strictly larger neighbours
C13_Witness ==
    /\ op = "next" /\ nmode # "Raw" /\ kind = "RawDelim"
    /\ Len(raw) >= 5
    /\ \E i \in 2..Len(raw) : PopOrderEnds[i - 1] = PopOrderEnds[i]
    /\ \E i \in 2..Len(raw) : PopOrderEnds[i - 1] < PopOrderEnds[i]

C15_FacadeFrame ==
    [][/\ op' = "jump" =>
              (newline' = newline /\ error' = error /\ mode' = mode /\ raw' = raw)
       /\ op' = "set_mode" =>
              (cursor' = cursor /\ newline' = newline /\ error' = error /\ raw' = raw)
       /\ op' \in {"take_error", "take_error_again"} =>
              /\ taken' = error /\ error' = None
              /\ cursor' = cursor /\ mode' = mode /\ newline' = newline /\ raw' = raw
       /\ (op \in {"take_error", "take_error_again"} /\ op' = "take_error_again") =>
              taken' = None]_vars

\* the second take_error in a row after a next that returned Error
C15_Witness == op = "take_error_again" /\ kind = "Error" /\ taken = None /\ error = None

\* the keywords of Code mode and their kinds
KeywordTable == {
    <<"none", "None">>, <<"auto", "Auto">>, <<"true", "Bool">>, <<"false", "Bool">>,
    <<"not", "Not">>, <<"and", "And">>, <<"or", "Or">>, <<"let", "Let">>,
    <<"set", "Set">>, <<"show", "Show">>, <<"context", "Context">>, <<"if", "If">>,
    <<"else", "Else">>, <<"for", "For">>, <<"in", "In">>, <<"while", "While">>,
    <<"break", "Break">>, <<"continue", "Continue">>, <<"return", "Return">>,
    <<"import", "Import">>, <<"include", "Include">>, <<"as", "As">>}
\* the text before offset s ends with c
PrefixEndsWith(s, c) == s >= 1 /\ text[s] = c
\* the token is a maximal run of identifier-continue characters
MaximalIdentRun ==
    /\ \A i \in 1..Len(Span) : Span[i] = Cont \/ is_id_continue(Span[i])
    /\ ~at(IdContinue, cursor)

\* C16: in Code mode a token that starts with an identifier-start character is
\* the maximal identifier-continue run w; its kind is the keyword kind of w
\* exactly if w is a keyword and the text before it does not end with '.' or
\* '@', or ends with '..'; otherwise it is Underscore for "_" and Ident for
\* any other w.
C16_KeywordUnlessSuppressed ==
    (op = "next" /\ nmode = "Code" /\ start < TextLen /\ is_id_start(text[start + 1])) =>
        LET w == concat(chars(Span))
            kw == {k \in KeywordTable : k[1] = w}
            looked_up ==
                \/ ~(PrefixEndsWith(start, ".") \/ PrefixEndsWith(start, "@"))
                \/ (PrefixEndsWith(start, ".") /\ PrefixEndsWith(start - 1, "."))
        IN  /\ MaximalIdentRun
            /\ IF kw # {} /\ looked_up
               THEN \E k \in kw : kind = k[2]
               ELSE kind = IF w = "_" THEN "Underscore" ELSE "Ident"

\* the keyword let right after a range operator
C16_Witness ==
    /\ op = "next" /\ nmode = "Code" /\ kind = "Let"
    /\ Span = <<"l", "e", "t">>
    /\ PrefixEndsWith(start, ".") /\ PrefixEndsWith(start - 1, ".")

\* the multi-character shorthands of Markup
MarkupTable == {<<".", ".", ".">>, <<"-", "-", "-">>, <<"-", "-">>, <<"-", "?">>}
\* the shorthands of Math
MathTable ==
    {<<MathShorthands[i][1]>> \o MathShorthands[i][2] : i \in 1..Len(MathShorthands)}
        \cup {<<"*">>, <<"-">>}
\* the operators and punctuation of Code, with their kinds
CodeTable == {
    <<<<"=", "=">>, "EqEq">>, <<<<"!", "=">>, "ExclEq">>, <<<<"<", "=">>, "LtEq">>,
    <<<<">", "=">>, "GtEq">>, <<<<"+", "=">>, "PlusEq">>, <<<<"-", "=">>, "HyphEq">>,
    <<<<MINUS, "=">>, "HyphEq">>, <<<<"*", "=">>, "StarEq">>, <<<<"/", "=">>, "SlashEq">>,
    <<<<".", ".">>, "Dots">>, <<<<"=", ">">>, "Arrow">>,
    <<<<"{">>, "LeftBrace">>, <<<<"}">>, "RightBrace">>, <<<<"[">>, "LeftBracket">>,
    <<<<"]">>, "RightBracket">>, <<<<"(">>, "LeftParen">>, <<<<")">>, "RightParen">>,
    <<<<"$">>, "Dollar">>, <<<<",">>, "Comma">>, <<<<";">>, "Semicolon">>,
    <<<<":">>, "Colon">>, <<<<".">>, "Dot">>, <<<<"+">>, "Plus">>, <<<<"-">>, "Minus">>,
    <<<<MINUS>>, "Minus">>, <<<<"*">>, "Star">>, <<<<"/">>, "Slash">>, <<<<"=">>, "Eq">>,
    <<<<"<">>, "Lt">>, <<<<">">>, "Gt">>}
\* the entries of mode m's table with the kind next gives them
TableOf(m) ==
    CASE m = "Markup" -> {<<e, "Shorthand">> : e \in MarkupTable}
      [] m = "Math" -> {<<e, "Shorthand">> : e \in MathTable}
      [] m = "Code" -> CodeTable
      [] OTHER -> {}
\* the entries of mode m's table that the input at offset s begins with
EntriesAt(m, s) == {e \in TableOf(m) : atStr(Encode(e[1]), s)}
\* the most recent token is the longest entry of its mode at its start
LongestEntry ==
    \E e \in EntriesAt(nmode, start) :
        /\ \A f \in EntriesAt(nmode, start) : Len(Encode(f[1])) <= Len(Encode(e[1]))
        /\ cursor = start + Len(Encode(e[1]))
        /\ kind = e[2]
\* a rule that is tried before the table takes the input at offset s: a
\* comment, a stray end of a block comment, in Code a label or a number
TakenBefore(m, s) ==
    \/ atStr(<<"/", "/">>, s) \/ atStr(<<"/", "*">>, s) \/ atStr(<<"*", "/">>, s)
    \/ m = "Code" /\ peek(s) = "<" /\ at(IdContinue, s + 1)
    \/ m = "Code" /\ peek(s) = "." /\ at(AsciiDigit, s + 1)

\* C17 as stated: whenever the input at the cursor begins with an entry of
\* the mode's table, the token is the longest such entry.
C17_Original ==
    (NonRawCall /\ EntriesAt(nmode, start) # {}) => LongestEntry

\* C17, amended: whenever the input at the cursor begins with an entry of the
\* mode's table and is not taken by a rule tried before the table (a comment
\* opener, a stray end of block comment, in Code a label or a number), the
\* token is the longest entry that is a prefix of the input, with its kind.
C17_Amended ==
    (NonRawCall /\ EntriesAt(nmode, start) # {} /\ ~TakenBefore(nmode, start))
        => LongestEntry

\* the four-byte Math shorthand, of which three shorter entries are prefixes
C17_Witness ==
    /\ NonRawCall /\ nmode = "Math" /\ kind = "Shorthand"
    /\ Span = <<"<", "=", "=", ">">>
    /\ Cardinality(EntriesAt(nmode, start)) >= 3

\* "Hello, world!\n"
HelloWorld ==
    <<"H", "e", "l", "l", "o", ",", " ", "w", "o", "r", "l", "d", "!", "\n">>
\* the most recent next is the token of kind k over from..to
Returned(k, from, to) == kind = k /\ start = from /\ cursor = to

\* C18 as stated: lexing "Hello, world!\n" in Markup from offset 0 gives Text
\* 0..6, Space 6..7, Text 7..13, Space 13..14 and End, in this order.
C18_Original ==
    (text = HelloWorld /\ op = "next") =>
        \/ Returned("Text", 0, 6)
        \/ Returned("Space", 6, 7)
        \/ Returned("Text", 7, 13)
        \/ Returned("Space", 13, 14)
        \/ Returned("End", 14, 14)

\* C18, amended: lexing "Hello, world!\n" in Markup from offset 0 gives three
\* tokens: Text over "Hello, world!" (0..13), Space over the newline (13..14)
\* with newline set, and End.
C18_Amended ==
    (text = HelloWorld /\ op = "next") =>
        \/ Returned("Text", 0, 13) /\ ~newline
        \/ Returned("Space", 13, 14) /\ newline
        \/ Returned("End", 14, 14)

\* the End that follows the Space over the newline
C18_Witness == text = HelloWorld /\ op = "next" /\ Returned("End", 14, 14) /\ ends = 1

\* "```rust\n  a\n  b\n```"
RustBlock ==
    <<BT, BT, BT, "r", "u", "s", "t", "\n", " ", " ", "a", "\n", " ", " ", "b", "\n",
      BT, BT, BT>>
\* the tokens of a replay that has reached End
Replay(toks) == (replayed # <<>> /\ replayed[Len(replayed)].kind = "End") => replayed = toks
RawToken(k, from, to) == [kind |-> k, from |-> from, to |-> to]

\* C19 as stated: the replay of the block is RawDelim, RawLang, then
\* RawTrimmed and Text pairs whose Text tokens cover exactly "a" and "b" (the
\* two leading spaces belong to the RawTrimmed tokens), RawDelim and End.
C19_Original ==
    text = RustBlock =>
        Replay(<<RawToken("RawDelim", 0, 3), RawToken("RawLang", 3, 7),
                 RawToken("RawTrimmed", 7, 10), RawToken("Text", 10, 11),
                 RawToken("RawTrimmed", 11, 14), RawToken("Text", 14, 15),
                 RawToken("RawTrimmed", 15, 16), RawToken("RawDelim", 16, 19),
                 RawToken("End", 19, 19)>>)

\* C19, amended: the closing fence at column 0 makes the dedent 0, so the
\* replay is RawDelim, RawLang, RawTrimmed over the first newline, Text over
\* "  a", RawTrimmed over the newline, Text over "  b", RawTrimmed over the
\* last newline, RawDelim over the closing fence, and End.
C19_Amended ==
    text = RustBlock =>
        Replay(<<RawToken("RawDelim", 0, 3), RawToken("RawLang", 3, 7),
                 RawToken("RawTrimmed", 7, 8), RawToken("Text", 8, 11),
                 RawToken("RawTrimmed", 11, 12), RawToken("Text", 12, 15),
                 RawToken("RawTrimmed", 15, 16), RawToken("RawDelim", 16, 19),
                 RawToken("End", 19, 19)>>)

\* the replay of the block has reached End
C19_Witness ==
    /\ text = RustBlock /\ mode = "Raw"
    /\ replayed # <<>> /\ replayed[Len(replayed)].kind = "End"

\* the hexadecimal numerals of the Unicode scalar values: at most six digits
\* after the leading zeros, a value up to 0x10FFFF outside 0xD800..0xDFFF
ScalarValue(hex) ==
    LET digits == strip_zeros(hex)
        v == radix_value(digits, 16, 0)
    IN  /\ hex # <<>>
        /\ \A i \in 1..Len(hex) : hex[i] \in HexDigit
        /\ Len(digits) <= 6
        /\ (v <= 55295 \/ (57344 <= v /\ v <= 1114111))

\* C20: in Markup and Math a token that starts with a backslash is, for
\* \u{HEX} with HEX a run of ASCII alphanumerics, Escape over the whole
\* sequence if HEX is a Unicode scalar value in base 16 and otherwise
\* Error("invalid Unicode codepoint: HEX"); for \u{HEX without the closing
\* brace Error("unclosed Unicode escape sequence"); for a backslash at the end
\* of the input or before a whitespace character Linebreak over the backslash
\* only; for any other backslash Escape over the backslash and one character.
C20_Backslash ==
    (op = "next" /\ nmode \in {"Markup", "Math"} /\ start < TextLen
        /\ text[start + 1] = "\\") =>
        LET p == start + 1
            to == eat_while(AsciiAlphanumeric, p + 2)
            hex == get(p + 2, to)
        IN  IF atStr(<<"u", "{">>, p)
            THEN IF peek(to) = "}"
                 THEN IF ScalarValue(hex)
                      THEN kind = "Escape" /\ cursor = to + 1 /\ error = None
                      ELSE /\ kind = "Error"
                           /\ error = Some("invalid Unicode codepoint: " \o concat(hex))
                 ELSE /\ kind = "Error"
                      /\ error = Some("unclosed Unicode escape sequence")
            ELSE IF p = TextLen \/ text[p + 1] \in Whitespace
            THEN kind = "Linebreak" /\ cursor = p /\ error = None
            ELSE kind = "Escape" /\ cursor = p + len_utf8(text[p + 1]) /\ error = None

\* a closed escape whose digits parse as a number that is a surrogate
C20_Witness ==
    /\ op = "next" /\ nmode \in {"Markup", "Math"} /\ kind = "Error"
    /\ Span = <<"\\", "u", "{", "D", "8", "0", "0", "}">>
    /\ error = Some("invalid Unicode codepoint: D800")

\* the markers of Lexer::markup that need a space or the end after them
MarkerKind(c) ==
    CASE c = "=" -> "HeadingMarker"
      [] c = "-" -> "ListMarker"
      [] c = "+" -> "EnumMarker"
      [] c = "/" -> "TermMarker"
\* the end of the marker that starts at offset p: the whole run of '=', or the
\* single '-', '+' or '/'
MarkerEnd(p) == IF text[p + 1] = "=" THEN eat_while({"="}, p) ELSE p + 1
AtMarker == NonRawCall /\ nmode = "Markup" /\ start < TextLen
            /\ text[start + 1] \in {"=", "-", "+", "/"}
MarkupTokens(doc, toks) ==
    (op = "next" /\ text = Encode(doc)) =>
        \A i \in 1..Len(toks) : start = toks[i][2] => (kind = toks[i][1] /\ cursor = toks[i][3])

\* C21 as stated: in Markup mode a run of '=' is a HeadingMarker, and a single
\* '-', '+' or '/' a ListMarker, EnumMarker or TermMarker, exactly if the
\* character after it is a space of Markup mode (' ', tab or a newline) or the
\* end of the input; before any other character, U+00A0 included, the token
\* does not have the marker kind.
C21_Original ==
    AtMarker =>
        ((kind = MarkerKind(text[start + 1]) /\ cursor = MarkerEnd(start))
            <=> (done(MarkerEnd(start)) \/ is_space(peek(MarkerEnd(start)), "Markup")))

\* C21, amended: the marker kind is returned exactly if the character after
\* the run of '=' (after the single '-', '+' or '/') is a whitespace character
\* (char::is_whitespace, which holds U+00A0 and every space of Markup mode) or
\* the end of the input.  Otherwise a run of '=' starts a Text token, and a
\* '-', '+' or '/' starts a Text, a Shorthand or a comment.  "== Heading\n"
\* gives HeadingMarker, Space, Text, Space, End and "==nope" one Text.
C21_Amended ==
    /\ AtMarker =>
        /\ (kind = MarkerKind(text[start + 1]) /\ cursor = MarkerEnd(start))
              <=> (done(MarkerEnd(start)) \/ peek(MarkerEnd(start)) \in Whitespace)
        /\ kind \in {"HeadingMarker", "ListMarker", "EnumMarker", "TermMarker"}
              => kind = MarkerKind(text[start + 1])
        /\ ~(done(MarkerEnd(start)) \/ peek(MarkerEnd(start)) \in Whitespace)
              => /\ text[start + 1] = "=" => kind = "Text"
                 /\ kind \in {"Text", "Shorthand", "LineComment", "BlockComment"}
    /\ MarkupTokens(<<"=", "=", " ", "H", "e", "a", "d", "i", "n", "g", "\n">>,
                    <<<<"HeadingMarker", 0, 2>>, <<"Space", 2, 3>>, <<"Text", 3, 10>>,
                      <<"Space", 10, 11>>, <<"End", 11, 11>>>>)
    /\ MarkupTokens(<<"=", "=", "n", "o", "p", "e">>, <<<<"Text", 0, 6>>>>)

\* a HeadingMarker directly before U+00A0
C21_Witness ==
    AtMarker /\ kind = "HeadingMarker" /\ cursor < TextLen /\ text[cursor + 1] = NBSP

\* the opening brackets of s[i..] left unclosed under proper nesting, given
\* those open before i
RECURSIVE Unclosed(_, _, _)
Unclosed(s, i, open) ==
    IF i > Len(s) THEN open
    ELSE IF s[i] \in {"[", "("} THEN Unclosed(s, i + 1, Append(open, s[i]))
    ELSE IF open # <<>> /\ <<open[Len(open)], s[i]>> \in {<<"[", "]">>, <<"(", ")">>}
    THEN Unclosed(s, i + 1, SubSeq(open, 1, Len(open) - 1))
    ELSE Unclosed(s, i + 1, open)
Balanced(s) == Unclosed(s, 1, <<>>) = <<>>
AtLink ==
    /\ NonRawCall /\ nmode = "Markup"
    /\ \E scheme \in LinkSchemes :
           Len(Span) >= Len(scheme) /\ SubSeq(Span, 1, Len(scheme)) = scheme
UnbalancedMessage ==
    "automatic links cannot contain unbalanced brackets, "
        \o "use the " \o BT \o "link" \o BT \o " function instead"

\* C22: in Markup mode a token that starts with http:// or https:// is a Link
\* exactly if every '[' and '(' of its text is closed by a matching bracket
\* later in its text, properly nested; otherwise it is an Error with the
\* message about unbalanced brackets.
C22_Original ==
    AtLink => /\ (kind = "Link") <=> Balanced(Span)
              /\ kind # "Link" => (kind = "Error" /\ error = Some(UnbalancedMessage))

\* a Link whose text holds an opening bracket that is never closed
C22_Witness == AtLink /\ kind = "Link" /\ ~Balanced(Span)

\* a Code-mode next that entered Lexer::number
AtNumber ==
    /\ NonRawCall /\ nmode = "Code" /\ start < TextLen
    /\ \/ text[start + 1] \in AsciiDigit
       \/ text[start + 1] = "." /\ at(AsciiDigit, start + 1)
\* the base, the captured digit slice and the suffix of the number token
NumBase == number_base(text[start + 1], start + 1)
NumDigitsStart == IF NumBase # 10 THEN start + 2 ELSE start
NumIntEnd ==
    eat_while(IF NumBase = 16 THEN AsciiAlphanumeric ELSE AsciiDigit,
              IF NumBase # 10 THEN start + 2 ELSE start + 1)
NumSuffixStart ==
    number_exponent(NumBase, number_fraction(text[start + 1], NumBase, NumIntEnd))
NumSlice == get(NumDigitsStart, NumSuffixStart)
NumSuffix == concat(get(NumSuffixStart, cursor))
CodeTokens(doc, toks) ==
    (op = "next" /\ text = Encode(doc)) =>
        \A i \in 1..Len(toks) : start = toks[i][2] => (kind = toks[i][1] /\ cursor = toks[i][3])

\* C23: a Code-mode number token is classified from its digit slice and its
\* suffix.  A slice that is neither an i64 in the base nor a base-10 float
\* gives Error with the message of the base, whatever the suffix; otherwise
\* an empty suffix gives Int for an i64 and Float for the rest (a base-10
\* value above 2^63-1 is a Float, in base 16 an Error), a suffix of the unit
\* list gives Numeric and any other suffix Error("invalid number suffix: ..").
\* "0xFF + 1.5e-2pt" gives Int, Space, Plus, Space, Numeric, End.
C23_NumberClassification ==
    /\ AtNumber =>
        LET int == parses_i64(NumSlice, NumBase)
            float == NumBase = 10 /\ parses_f64(NumSlice)
        IN  IF ~int /\ ~float
            THEN kind = "Error" /\ error = Some(number_error(NumBase, NumSlice))
            ELSE IF NumSuffix = ""
            THEN kind = (IF int THEN "Int" ELSE "Float")
            ELSE /\ (kind = "Numeric") <=> (NumSuffix \in NumberSuffixes)
                 /\ NumSuffix \notin NumberSuffixes =>
                        (kind = "Error"
                            /\ error = Some("invalid number suffix: " \o NumSuffix))
    /\ (op = "next" /\ start = 0) =>
        /\ text = I64Max(10) => kind = "Int"
        /\ text = SubSeq(I64Max(10), 1, 18) \o <<"8">> => kind = "Float"
        /\ text = <<"0", "x">> \o I64Max(16) => kind = "Int"
        /\ text = <<"0", "x", "8">> \o [i \in 1..15 |-> "0"] =>
               (kind = "Error"
                   /\ error = Some("invalid hexadecimal number: 0x8000000000000000"))
        /\ text = I64Max(10) \o <<"p", "t">> => kind = "Numeric"
    /\ CodeTokens(<<"0", "x", "F", "F", " ", "+", " ", "1", ".", "5", "e", "-", "2", "p", "t">>,
                  <<<<"Int", 0, 4>>, <<"Space", 4, 5>>, <<"Plus", 5, 6>>, <<"Space", 6, 7>>,
                    <<"Numeric", 7, 15>>, <<"End", 15, 15>>>>)

\* the base-10 number 2^63 without a suffix, returned as a Float
C23_Witness ==
    /\ AtNumber /\ kind = "Float" /\ NumSuffix = ""
    /\ NumSlice = SubSeq(I64Max(10), 1, 18) \o <<"8">>

\* C24 as stated: for a number with prefix 0b, 0o or 0x the token never takes
\* in a '.', which stays in the input for the next token, and in bases 2 and
\* 8 an 'e' or 'E' after the digits starts the suffix: when the digits are an
\* i64 of the base, the token is Numeric or an Error about its suffix.
C24_Original ==
    (AtNumber /\ NumBase # 10) =>
        /\ \A i \in 1..Len(Span) : Span[i] # "."
        /\ (NumBase \in {2, 8} /\ at({"e", "E"}, NumIntEnd)
                /\ parses_i64(get(NumDigitsStart, NumIntEnd), NumBase))
              => \/ kind = "Numeric"
                 \/ kind = "Error"
                      /\ error = Some("invalid number suffix: "
                                        \o concat(get(NumIntEnd, cursor)))

\* a number with a base prefix whose token holds the '.' after its digits
C24_Witness ==
    /\ AtNumber /\ NumBase # 10 /\ kind = "Error"
    /\ NumIntEnd < cursor /\ text[NumIntEnd + 1] = "."
    /\ error = Some(number_error(NumBase, get(NumDigitsStart, NumIntEnd) \o <<".">>))

\* the offset after the '*/' that closes the comment open at depth `depth`,
\* reading '/*' and '*/' from offset i on as two-character delimiters from
\* left to right; the end of the input when there is none
RECURSIVE NestedEnd(_, _)
NestedEnd(i, depth) ==
    IF i >= TextLen THEN TextLen
    ELSE IF get(i, Min(i + 2, TextLen)) = <<"*", "/">>
    THEN IF depth = 1 THEN i + 2 ELSE NestedEnd(i + 2, depth - 1)
    ELSE IF get(i, Min(i + 2, TextLen)) = <<"/", "*">>
    THEN NestedEnd(i + 2, depth + 1)
    ELSE NestedEnd(i + 1, depth)
StartsWith(s) == get(start, Min(start + Len(s), TextLen)) = s

\* C25: in Markup, Math and Code mode a next that starts at '/*' returns
\* BlockComment, never Error, and ends right after the '*/' that closes the
\* outermost comment under proper nesting, no character serving in two
\* delimiters, or at the end of the input when there is none; a next that
\* starts at '*/' returns Error("unexpected end of block comment") over those
\* two characters.
C25_BlockComment ==
    /\ (NonRawCall /\ StartsWith(<<"/", "*">>)) =>
          (kind = "BlockComment" /\ error = None /\ cursor = NestedEnd(start + 2, 1))
    /\ (NonRawCall /\ StartsWith(<<"*", "/">>)) =>
          /\ kind = "Error" /\ cursor = start + 2
          /\ error = Some("unexpected end of block comment")

\* a comment that holds a closed nested comment and ends before the end of
\* the input
C25_Witness ==
    /\ NonRawCall /\ kind = "BlockComment" /\ cursor < TextLen
    /\ Span = <<"/", "*", "/", "*", "*", "/", "*", "/">>

\* the number of consecutive backslashes directly before the character at
\* index i of the text
BackslashesBefore(i) ==
    Cardinality({k \in 1..(i - 1) : \A j \in 1..k : text[i - j] = "\\"})
\* the indices of the quotes after the opening quote of the token that are
\* preceded by an even number of consecutive backslashes
ClosingQuotes ==
    {i \in (start + 2)..TextLen : text[i] = "\"" /\ BackslashesBefore(i) % 2 = 0}
AtString ==
    /\ NonRawCall /\ nmode \in {"Math", "Code"}
    /\ start < TextLen /\ text[start + 1] = "\""

\* C26: in Math and Code mode a next that starts at '"' returns Str up to and
\* including the first later '"' that is preceded by an even number, zero
\* included, of consecutive backslashes; with no such quote it consumes the
\* rest of the input and returns Error("unclosed string").
C26_String ==
    AtString =>
        IF ClosingQuotes # {}
        THEN /\ kind = "Str" /\ error = None
             /\ cursor \in ClosingQuotes /\ \A i \in ClosingQuotes : cursor <= i
        ELSE kind = "Error" /\ error = Some("unclosed string") /\ cursor = TextLen

\* a string that holds an escaped quote and is closed after two backslashes
C26_Witness ==
    /\ AtString /\ kind = "Str" /\ cursor < TextLen
    /\ Span = <<"\"", "\\", "\"", "\\", "\\", "\"">>

\* a next in Markup or Code mode that started at a backtick
AtBacktick ==
    /\ op = "next" /\ nmode \in {"Markup", "Code"}
    /\ start < TextLen /\ text[start + 1] = BT
\* the pending stack holds the sub-tokens of the run opened at `start` and
\* nothing else: one RawDelim, popped last, that ends on a backtick, and
\* before it entries with ends in order between the cursor and that end
OwnStack ==
    /\ raw # <<>>
    /\ raw[1][1] = "RawDelim" /\ text[raw[1][2]] = BT
    /\ \A i \in 2..Len(raw) : raw[i][1] # "RawDelim"
    /\ \A i \in 1..Len(raw) : start < raw[i][2] /\ cursor <= raw[i][2]
    /\ \A i \in 1..(Len(raw) - 1) : raw[i + 1][2] <= raw[i][2]
    /\ \A i \in (start + 1)..cursor : text[i] = BT

\* C27: a next in Markup or Code mode that starts at a backtick discards the
\* entries an earlier raw block left pending: on return the stack holds only
\* the sub-tokens of this run; an unclosed run gives Error("unclosed raw
\* text") with an empty stack and the cursor at the end of the input, and as
\* long as that message stands a next in Raw mode replays nothing.
C27_RawClearsPending ==
    /\ AtBacktick =>
          IF kind = "Error"
          THEN error = Some("unclosed raw text") /\ raw = <<>> /\ cursor = TextLen
          ELSE kind = "RawDelim" /\ error = None /\ OwnStack
    /\ (op = "next" /\ nmode = "Raw" /\ error = Some("unclosed raw text")) =>
          (kind = "End" /\ raw = <<>> /\ cursor = start)

\* the closing backtick of a closed run, whose sub-tokens were still pending
\* (the cursor never moves back), was lexed as an unclosed run; the next in
\* Raw mode after it returned End
C27_Witness ==
    /\ op = "next" /\ nmode = "Raw" /\ kind = "End" /\ raw = <<>>
    /\ error = Some("unclosed raw text")
    /\ text = <<BT, "a", BT>>

\* a next that entered Lexer::label
AtLabel ==
    /\ NonRawCall /\ nmode \in {"Markup", "Code"}
    /\ start + 1 < TextLen /\ text[start + 1] = "<" /\ is_id_continue(text[start + 2])

\* C28: no next returns Error with the message "label cannot be empty".  The
\* label rule is entered only at '<' followed by an identifier-continue
\* character, so its token holds at least that character and is a Label or
\* Error("unclosed label"); '<>' is Text in Markup ('<' and '>' each end a
\* text run, so it is two Text tokens) and Lt, Gt in Code.
C28_NoEmptyLabel ==
    /\ error # Some("label cannot be empty")
    /\ AtLabel =>
          /\ cursor >= start + 2
          /\ \/ kind = "Label" /\ error = None /\ text[cursor] = ">"
             \/ kind = "Error" /\ error = Some("unclosed label")
    /\ (op = "next" /\ kind = "Label") => AtLabel
    /\ (NonRawCall /\ StartsWith(<<"<", ">">>)) =>
          /\ nmode = "Markup" => (kind = "Text" /\ cursor = start + 1)
          /\ nmode = "Code" => (kind = "Lt" /\ cursor = start + 1)
    /\ (NonRawCall /\ StartsWith(<<">">>)) =>
          /\ nmode = "Markup" => kind = "Text"
          /\ (nmode = "Code" /\ ~StartsWith(<<">", ">">>) /\ ~StartsWith(<<">", "=">>))
                => (kind = "Gt" /\ cursor = start + 1)

\* the label rule returned an Error after a hyphen, the shortest label text
C28_Witness ==
    /\ AtLabel /\ nmode = "Code" /\ kind = "Error" /\ error = Some("unclosed label")
    /\ Span = <<"<", "-">>

\* the byte slots after offset a up to offset b that do not belong to a
\* whitespace character lying in that span
NonWhitespace(a, b) ==
    {i \in (a + 1)..b :
        ~(\E j \in (a + 1)..i : /\ text[j] \in Whitespace
                                /\ \A k \in (j + 1)..i : text[k] = Cont)}
\* the replay of a closed raw block goes on or has ended
InReplay == op = "next" /\ nmode = "Raw" /\ Len(replayed) >= 2

\* C29: in the replay of a closed raw block, inline or blocky, the span of
\* every RawTrimmed sub-token, from the end of the sub-token before it to its
\* own end, holds whitespace characters only, and the span of the closing
\* RawDelim holds, besides whitespace, only the backticks of the closing run:
\* every other character of the body lies in a Text sub-token or in the
\* language tag.
C29_TrimmedIsWhitespace ==
    InReplay =>
        \A i \in 2..Len(replayed) :
            /\ replayed[i].kind \in {"RawLang", "RawTrimmed", "Text", "RawDelim", "End"}
            /\ replayed[i].from = replayed[i - 1].to
            /\ replayed[i].kind = "RawTrimmed" =>
                   NonWhitespace(replayed[i].from, replayed[i].to) = {}
            /\ replayed[i].kind = "RawDelim" =>
                   LET rest == NonWhitespace(replayed[i].from, replayed[i].to)
                   IN  /\ \A k \in rest : text[k] = BT
                       /\ Cardinality(rest) = replayed[1].to - replayed[1].from
            /\ replayed[i].kind = "RawLang" => i = 2

\* a blocky block whose replay has ended and in which a RawTrimmed took a
\* newline and a no-break space of the indentation, before a Text
C29_Witness ==
    /\ InReplay /\ replayed[Len(replayed)].kind = "End"
    /\ \E i \in 2..(Len(replayed) - 1) :
           /\ replayed[i].kind = "RawTrimmed"
           /\ get(replayed[i].from, replayed[i].to) = <<"\n", NBSP, Cont>>
           /\ replayed[i + 1].kind = "Text" /\ replayed[i + 1].to > replayed[i + 1].from

====
